---- MODULE Spec2Model ----
(***************************************************************************)
(* SwarmC2 backend (backend/main.go): the rate-limited OpenSky fetcher,    *)
(* the OAuth2 token cache, the per-region snapshot cache, the pollers, the *)
(* analysis engine and the WebSocket subscriber registry / broadcaster.    *)
(*                                                                         *)
(* Every goroutine is a process with a program counter pc[g].  A step of   *)
(* the model is one stretch of code between two points where the goroutine *)
(* can block (a mutex, a sleep, a network call) or where another goroutine *)
(* can observe it.  Time is a discrete clock in seconds (now).             *)
(***************************************************************************)
EXTENDS Integers, Sequences, FiniteSets, TLC

(***************************** bounds *************************************)
\* seconds of wall-clock time explored after process start
MaxElapsed == 7
\* fetchOpenSkyData invocations explored (all callers together)
MaxCalls == 2
\* inbound client messages explored per connection
MaxMsgs == 1
\* reasoning-service calls explored (all callers together)
MaxAnalyses == 1

\* rows of an upstream reply explored
MaxRows == 2
\* pieces of a reasoning-service reply text explored
MaxLen == 4

(************************* program constants ******************************)
\* fields a row must have to be parsed
MinFields == 17
\* minGap with a credential configured (seconds)
MinGapAuth == 3
\* minGap anonymous (seconds)
MinGapAnon == 6
\* the token cache's refresh buffer (seconds)
TokenBuffer == 60
\* wall-clock seconds between time.Time's zero value (the initial
\* lastOpenSkyCall) and process start: anything not below MinGapAnon
ProcessStart == 6

\* the keys of the regions map
Regions == {"taiwan", "socal", "europe", "global"}
\* the regions main() starts a poller and an analysis loop for
PolledRegions == {"taiwan", "socal"}
\* region names a request may carry: configured ones (two with a poller,
\* one without) and one that is not configured
RequestRegions == {"taiwan", "socal", "europe", "mars"}
\* ?region= values of a WebSocket upgrade request
ConnectQueries == {"", "socal", "mars"}
\* ?region= values of a GET /api/aircraft request
RestQueries == {"", "europe", "mars"}
\* r.URL.Query().Get("region") with the "" default applied
DefaultRegion(q) == IF q = "" THEN "taiwan" ELSE q

\* lengths of upstream rows: one short of MinFields, MinFields, one more
RowLengths == {16, 17, 18}
\* icao24 values of upstream rows
RowIds == {1, 2}
\* what a coordinate field of a row may hold
CoordValues == {[t |-> "null", v |-> 0], [t |-> "num", v |-> 25], [t |-> "str", v |-> 25]}

\* provider-reported token lifetimes (expires_in, seconds)
TokenLifetimes == {60, 62}

\* the environment the process was started with
EnvConfigs ==
  { [clientId |-> TRUE,  clientSecret |-> TRUE,  username |-> FALSE, password |-> FALSE],
    [clientId |-> TRUE,  clientSecret |-> TRUE,  username |-> TRUE,  password |-> TRUE],
    [clientId |-> TRUE,  clientSecret |-> FALSE, username |-> FALSE, password |-> FALSE],
    [clientId |-> FALSE, clientSecret |-> FALSE, username |-> TRUE,  password |-> TRUE],
    [clientId |-> FALSE, clientSecret |-> FALSE, username |-> FALSE, password |-> FALSE] }

(***************************** processes **********************************)
Pollers  == {<<"poll", r>> : r \in PolledRegions}
Reqs     == {<<"req", 1>>}
Conns    == {1, 2}
Handlers == {<<"ws", c>> : c \in Conns}
Analysts == {<<"an", r>> : r \in PolledRegions}
AReqs    == {<<"areq", 1>>}
Procs    == Pollers \cup Reqs \cup Handlers \cup Analysts \cup AReqs
Fetchers == Pollers \cup Reqs
IsPoller(g) == g[1] = "poll"

NoSnap == [region |-> "", seq |-> 0, aircraft |-> <<>>, count |-> 0]
NoHdr  == [auth |-> "none", tok |-> 0]
NoRes  == [status |-> "", err |-> FALSE, seq |-> 0, aircraft |-> <<>>]
NoResp == [code |-> 0, snap |-> NoSnap]

VARIABLES
  env,               \* os.Getenv of the four OpenSky variables
  openaiKey,         \* os.Getenv("OPENAI_API_KEY") != ""
  now,               \* wall clock, seconds
  pc,                \* position of every goroutine
  openSkyMutex,      \* holder of openSkyMutex, <<>> when free
  lastOpenSkyCall,   \* the limiter's stamp
  wake,              \* time.Sleep deadline of a fetcher sleeping in the limiter
  oauthToken,        \* cached token (0 is "")
  oauthTokenExpiry,
  oauthTokenMutex,   \* holder of oauthTokenMutex, <<>> when free
  tokenSeq,          \* tokens the identity endpoint has issued
  expiresIn,         \* expires_in of the last token reply decoded (0: none)
  rejected,          \* history: tokens whose 401 has been handled
  hdr,               \* Authorization header of a fetcher's request
  freg,              \* region a fetcher is fetching
  res,               \* what the fetcher's last fetchOpenSkyData call returned
  calls,             \* fetchOpenSkyData invocations so far
  fetched,           \* upstream replies decoded so far (numbers the snapshots)
  airspaceCache,     \* region -> snapshot, NoSnap when the key is absent
  cacheMutex,        \* RWMutex: readers r, writers waiting q
  resp,              \* HTTP response of a REST request
  clients,           \* conn -> region, "" when the conn is not in the map
  clientsMutex,      \* RWMutex: readers r, writers waiting q
  todo,              \* conns a broadcast loop has still to visit
  cur,               \* conn a broadcast loop is at (0: none)
  attempted,         \* history: conns the current call of g wrote to
  failed,            \* history: conns whose write returned an error to g
  peer,              \* a connection's remote end: "none", "open", "stalled", "gone"
  inbox,             \* messages delivered to a connection's client, in order
  inmsg,             \* inbound client message waiting in the connection
  msgs,              \* inbound messages a connection has carried
  wsreg,             \* region a handler is registering
  request,           \* the read loop's decoded message (var request struct)
  analysisCache,     \* region -> analysis, NoAnalysis when the key is absent
  analyses,          \* reasoning-service calls so far
  adata,             \* the analysis an analyst has obtained
  content,           \* the reply text a caller of callOpenAIAnalysis got (<<>>: none)
  areg,              \* region of a POST /api/analyze request
  aresp,             \* HTTP response of a POST /api/analyze request
  regionRef,         \* browser client: the region selected (regionRef.current)
  display,           \* browser client: region tags of the aircraft list and analysis shown
  nread,             \* browser client: messages onmessage has handled
  states,            \* parseAircraftStates: the rows of the upstream reply
  pos,               \* parseAircraftStates: the row the range loop is at
  aircraft           \* parseAircraftStates: the records appended so far

vars == <<env, openaiKey, now, pc, openSkyMutex, lastOpenSkyCall, wake,
          oauthToken, oauthTokenExpiry, oauthTokenMutex, tokenSeq, expiresIn,
          rejected, hdr, freg, res, calls, fetched, airspaceCache, cacheMutex,
          resp, clients, clientsMutex, todo, cur, attempted, failed,
          peer, inbox, inmsg, msgs, wsreg, request, analysisCache,
          analyses, adata, content, areg, aresp, regionRef, display, nread,
          states, pos, aircraft>>

limiterVars == <<openSkyMutex, lastOpenSkyCall, wake>>
tokenVars   == <<oauthToken, oauthTokenExpiry, oauthTokenMutex, tokenSeq,
                 expiresIn, rejected>>
fetchVars   == <<hdr, freg, res, calls, fetched>>
cacheVars   == <<airspaceCache, cacheMutex>>
bcastVars   == <<todo, cur, attempted, failed>>
connVars    == <<peer, inbox, inmsg, msgs, wsreg, request>>
regVars     == <<clients, clientsMutex>>
anVars      == <<analysisCache, analyses, adata, content, areg, aresp>>
envVars     == <<env, openaiKey>>
parseVars   == <<states, pos, aircraft>>
uiVars      == <<regionRef, display, nread>>

NoAnalysis == [region |-> "", id |-> 0, level |-> "", score |-> 0, raw |-> <<>>]
NoAResp    == [code |-> 0, an |-> NoAnalysis]
FreeRW     == [r |-> {}, q |-> {}]
NoDisplay  == [aircraft |-> "", analysis |-> ""]
NoIn       == [json |-> FALSE, action |-> "", region |-> ""]
NoRequest  == [err |-> FALSE, action |-> "", region |-> ""]

(************************** sync.RWMutex **********************************)
\* RLock succeeds when no writer holds the lock or waits for it.  A writer's
\* critical section is an assignment, taken in one step, so a writer is only
\* ever seen waiting.
CanRLock(m) == m.q = {}
CanLock(m)  == m.r = {}
RLocked(m, g)   == [m EXCEPT !.r = @ \cup {g}]
RUnlocked(m, g) == [m EXCEPT !.r = @ \ {g}]
Queued(m, g)    == [m EXCEPT !.q = @ \cup {g}]
Dequeued(m, g)  == [m EXCEPT !.q = @ \ {g}]


(****************************** Init **************************************)
Keys == Regions \cup RequestRegions \cup RestQueries

\* no upstream reply is being parsed
NoParse ==
  /\ states = <<>>
  /\ pos = 1
  /\ aircraft = <<>>

\* the state main() leaves behind: empty maps, free locks, zero time stamps
Boot ==
  /\ now = ProcessStart
  /\ pc = [g \in Procs |->
             CASE g[1] = "poll" -> "init"
               [] g[1] = "req"  -> "r_new"
               [] g[1] = "ws"   -> "ws_new"
               [] g[1] = "areq" -> "a_new"
               [] OTHER         -> "an_idle"]
  /\ openSkyMutex = <<>>
  /\ lastOpenSkyCall = 0
  /\ wake = [g \in Fetchers |-> 0]
  /\ oauthToken = 0
  /\ oauthTokenExpiry = 0
  /\ oauthTokenMutex = <<>>
  /\ tokenSeq = 0
  /\ expiresIn = 0
  /\ rejected = {}
  /\ hdr = [g \in Fetchers |-> NoHdr]
  /\ freg = [g \in Reqs |-> ""]
  /\ res = [g \in Fetchers |-> NoRes]
  /\ calls = 0
  /\ fetched = 0
  /\ airspaceCache = [r \in Keys |-> NoSnap]
  /\ cacheMutex = FreeRW
  /\ resp = [g \in Reqs |-> NoResp]
  /\ clients = [c \in Conns |-> ""]
  /\ clientsMutex = FreeRW
  /\ todo = [g \in Pollers \cup Analysts |-> {}]
  /\ cur = [g \in Pollers \cup Analysts |-> 0]
  /\ attempted = [g \in Pollers \cup Analysts |-> {}]
  /\ failed = [g \in Pollers \cup Analysts |-> {}]
  /\ peer = [c \in Conns |-> "none"]
  /\ inbox = [c \in Conns |-> <<>>]
  /\ inmsg = [c \in Conns |-> NoIn]
  /\ msgs = [c \in Conns |-> 0]
  /\ wsreg = [c \in Conns |-> ""]
  /\ request = [c \in Conns |-> NoRequest]
  /\ analysisCache = [r \in Keys |-> NoAnalysis]
  /\ analyses = 0
  /\ adata = [g \in Analysts |-> NoAnalysis]
  /\ content = [g \in Analysts \cup AReqs |-> <<>>]
  /\ areg = [g \in AReqs |-> ""]
  /\ aresp = [g \in AReqs |-> NoAResp]
  /\ regionRef = [c \in Conns |-> "taiwan"]
  /\ display = [c \in Conns |-> NoDisplay]
  /\ nread = [c \in Conns |-> 0]

Init ==
  /\ env \in EnvConfigs
  /\ openaiKey \in BOOLEAN
  /\ Boot
  /\ NoParse

Goto(g, l) == pc' = [pc EXCEPT ![g] = l]

(************************ fetchOpenSkyData ********************************)
\* hasAuth and minGap
HasAuth == env.clientId \/ env.username
MinGap  == IF HasAuth THEN MinGapAuth ELSE MinGapAnon

\* getOpenSkyToken gets past its "no OAuth2 credentials" guard
OAuth == env.clientId /\ env.clientSecret

\* a caller enters fetchOpenSkyData
CallFetch(g) ==
  /\ calls < MaxCalls
  /\ calls' = calls + 1
  /\ res' = [res EXCEPT ![g] = NoRes]
  /\ Goto(g, "f_lock")
  /\ UNCHANGED <<fetched, hdr>>

\* "Auth priority: OAuth2 > Basic Auth > Anonymous" where no token is
\* involved: CLIENT_ID without a secret falls back to anonymous, else
\* USERNAME and PASSWORD give basic auth
StaticHeader ==
  IF ~env.clientId /\ env.username /\ env.password
    THEN [auth |-> "basic", tok |-> 0] ELSE NoHdr

\* the request goes out with header h
SendWith(g, h) ==
  /\ hdr' = [hdr EXCEPT ![g] = h]
  /\ Goto(g, "f_request")

\* lastOpenSkyCall = time.Now(); openSkyMutex.Unlock(); the request is
\* built, and getOpenSkyToken is called when it can yield a token
StampAndGo(g) ==
  /\ lastOpenSkyCall' = now
  /\ IF OAuth THEN Goto(g, "f_auth") /\ UNCHANGED hdr
              ELSE SendWith(g, StaticHeader)

\* the limiter without openSkyMutex: the gap is checked, and the stamp is
\* taken in a later step that other fetchers can come before
FetchLockUnlocked(g) ==
  /\ pc[g] = "f_lock"
  /\ wake' = [wake EXCEPT ![g] =
       IF now - lastOpenSkyCall < MinGap
         THEN now + (MinGap - (now - lastOpenSkyCall)) ELSE now]
  /\ Goto(g, "f_sleep")
  /\ UNCHANGED <<envVars, uiVars, parseVars, now, openSkyMutex, lastOpenSkyCall, tokenVars, fetchVars,
                 cacheVars, resp, bcastVars, connVars, regVars, anVars>>

\* openSkyMutex.Lock(); elapsed := time.Since(lastOpenSkyCall); either
\* time.Sleep(minGap - elapsed) begins with the mutex held, or the stamp is
\* taken and the mutex released at once
FetchLock(g) ==
  /\ pc[g] = "f_lock"
  /\ openSkyMutex = <<>>
  /\ IF now - lastOpenSkyCall < MinGap
       THEN /\ openSkyMutex' = g
            /\ wake' = [wake EXCEPT ![g] = now + (MinGap - (now - lastOpenSkyCall))]
            /\ Goto(g, "f_sleep")
            /\ UNCHANGED <<lastOpenSkyCall, hdr>>
       ELSE /\ StampAndGo(g)
            /\ UNCHANGED <<openSkyMutex, wake>>
  /\ UNCHANGED <<envVars, uiVars, parseVars, now, tokenVars, freg, res, calls, fetched, cacheVars,
                 resp, bcastVars, connVars, regVars, anVars>>

\* the limiter whose mutex is still held when the sleep is over and the
\* request is built
FetchWakeHolding(g) ==
  /\ pc[g] = "f_sleep"
  /\ now >= wake[g]
  /\ StampAndGo(g)
  /\ wake' = [wake EXCEPT ![g] = 0]
  /\ UNCHANGED <<envVars, uiVars, parseVars, now, openSkyMutex, tokenVars, freg, res, calls,
                 fetched, cacheVars, resp, bcastVars, connVars, regVars, anVars>>

\* time.Sleep(wait) returns; lastOpenSkyCall = time.Now(); openSkyMutex.Unlock()
FetchWake(g) ==
  /\ pc[g] = "f_sleep"
  /\ now >= wake[g]
  /\ StampAndGo(g)
  /\ openSkyMutex' = <<>>
  /\ wake' = [wake EXCEPT ![g] = 0]
  /\ UNCHANGED <<envVars, uiVars, parseVars, now, tokenVars, freg, res, calls, fetched, cacheVars,
                 resp, bcastVars, connVars, regVars, anVars>>

(************************* getOpenSkyToken ********************************)
\* oauthToken != "" && time.Now().Before(oauthTokenExpiry.Add(-60*time.Second))
TokenValid == oauthToken # 0 /\ now < oauthTokenExpiry - TokenBuffer

\* the check with the mutex released before the exchange
GetOpenSkyTokenUnlocked(g) ==
  /\ pc[g] = "f_auth"
  /\ oauthTokenMutex = <<>>
  /\ IF TokenValid
       THEN SendWith(g, [auth |-> "bearer", tok |-> oauthToken])
       ELSE Goto(g, "t_exchange") /\ UNCHANGED hdr
  /\ UNCHANGED <<envVars, uiVars, parseVars, now, limiterVars, tokenVars, freg, res, calls, fetched,
                 cacheVars, resp, bcastVars, connVars, regVars, anVars>>

\* getOpenSkyToken up to the identity request: oauthTokenMutex.Lock(), then
\* the cached token if it is valid for more than the buffer, else the
\* exchange begins with the mutex held
GetOpenSkyToken(g) ==
  /\ pc[g] = "f_auth"
  /\ oauthTokenMutex = <<>>
  /\ IF TokenValid
       THEN /\ SendWith(g, [auth |-> "bearer", tok |-> oauthToken])
            /\ UNCHANGED oauthTokenMutex
       ELSE /\ oauthTokenMutex' = g
            /\ Goto(g, "t_exchange")
            /\ UNCHANGED hdr
  /\ UNCHANGED <<envVars, uiVars, parseVars, now, limiterVars, oauthToken, oauthTokenExpiry,
                 tokenSeq, expiresIn, rejected, freg, res, calls, fetched,
                 cacheVars, resp, bcastVars, connVars, regVars, anVars>>

\* the expiry stored with the refresh buffer already taken off
ExpiryLessBuffer(life) == now + life - TokenBuffer

\* oauthTokenExpiry = time.Now().Add(time.Duration(tokenResp.ExpiresIn) * time.Second)
Expiry(life) == now + life

\* the exchange whose failure also forgets the cached token
TokenExchangeClears(g) ==
  /\ pc[g] = "t_exchange"
  /\ \/ /\ SendWith(g, NoHdr)
        /\ oauthToken' = 0
        /\ UNCHANGED <<oauthTokenExpiry, tokenSeq, expiresIn>>
     \/ \E life \in TokenLifetimes :
          /\ oauthToken' = tokenSeq + 1
          /\ oauthTokenExpiry' = Expiry(life)
          /\ tokenSeq' = tokenSeq + 1
          /\ expiresIn' = life
          /\ SendWith(g, [auth |-> "bearer", tok |-> tokenSeq + 1])
  /\ oauthTokenMutex' = <<>>
  /\ UNCHANGED <<envVars, uiVars, parseVars, now, limiterVars, rejected, freg, res, calls, fetched,
                 cacheVars, resp, bcastVars, connVars, regVars, anVars>>

\* http.Post to the identity endpoint returns: a network error, a non-200
\* status or an undecodable body give no token (the caller sends no header);
\* a decoded reply is cached with its expiry and returned
TokenExchange(g) ==
  /\ pc[g] = "t_exchange"
  /\ \/ /\ SendWith(g, NoHdr)
        /\ UNCHANGED <<oauthToken, oauthTokenExpiry, tokenSeq, expiresIn>>
     \/ \E life \in TokenLifetimes :
          /\ oauthToken' = tokenSeq + 1
          /\ oauthTokenExpiry' = Expiry(life)
          /\ tokenSeq' = tokenSeq + 1
          /\ expiresIn' = life
          /\ SendWith(g, [auth |-> "bearer", tok |-> tokenSeq + 1])
  /\ oauthTokenMutex' = <<>>
  /\ UNCHANGED <<envVars, uiVars, parseVars, now, limiterVars, rejected, freg, res, calls, fetched,
                 cacheVars, resp, bcastVars, connVars, regVars, anVars>>

(************************ parseAircraftStates *****************************)
\* a decoded JSON value of a row ([]interface{}): null, a number (float64)
\* or a string
Null   == [t |-> "null", v |-> 0]
Num(v) == [t |-> "num", v |-> v]
Str(v) == [t |-> "str", v |-> v]

\* a row of n fields: the icao24 at state[0], the longitude at state[5],
\* the latitude at state[6], null elsewhere
Row(n, id, lon, lat) ==
  [i \in 1..n |-> CASE i = 1 -> Str(id) [] i = 6 -> lon [] i = 7 -> lat
                     [] OTHER -> Null]

\* the rows an upstream reply may carry, and the replies
Rows ==
  {Row(n, id, lon, lat) : n \in RowLengths, id \in RowIds,
                          lon \in CoordValues, lat \in CoordValues}
Batches == UNION {[1..n -> Rows] : n \in 0..MaxRows}

\* getString: the string, or ""
getString(v) == IF v.t = "str" THEN v.v ELSE 0

\* getFloat64Ptr: a pointer to the number, or nil
Nil == [nil |-> TRUE, val |-> 0]
getFloat64Ptr(v) == IF v.t = "num" THEN [nil |-> FALSE, val |-> v.v] ELSE Nil

\* ac := Aircraft{...}: the fields that identify the row and its position
MkAircraft(state) ==
  [ICAO24 |-> getString(state[1]),
   Longitude |-> getFloat64Ptr(state[6]),
   Latitude |-> getFloat64Ptr(state[7])]

\* the test that looks at the latitude alone
KeepLatitudeOnly(ac) == ac.Latitude # Nil

\* if ac.Latitude != nil && ac.Longitude != nil
Keep(ac) == ac.Latitude # Nil /\ ac.Longitude # Nil

\* parseAircraftStates with every row of MinFields fields or more kept
ParseAircraftStatesKeepAll(sts) ==
  [i \in 1..Cardinality({k \in DOMAIN sts : Len(sts[k]) >= MinFields}) |->
     MkAircraft(sts[CHOOSE k \in DOMAIN sts :
                      /\ Len(sts[k]) >= MinFields
                      /\ Cardinality({m \in 1..k : Len(sts[m]) >= MinFields}) = i])]

\* parseAircraftStates(osResp.States): the records of the rows that are
\* long enough and have both coordinates, in the order of the rows
RECURSIVE ParseAircraftStates(_)
ParseAircraftStates(sts) ==
  IF sts = <<>> THEN <<>>
  ELSE LET before == ParseAircraftStates(SubSeq(sts, 1, Len(sts) - 1))
           state  == sts[Len(sts)]
       IN IF Len(state) < MinFields THEN before
          ELSE IF Keep(MkAircraft(state)) THEN Append(before, MkAircraft(state))
          ELSE before

\* two rows, the first with both coordinates, the second without longitude
TwoRowsOneWithoutLongitude ==
  <<Row(MinFields, 1, Num(25), Num(25)), Row(MinFields, 2, Null, Num(25))>>

\* the states arrays of the upstream replies of the fetch path: no row,
\* and the two rows above
ReplyBatches == {<<>>, TwoRowsOneWithoutLongitude}

(*************** fetchOpenSkyData: the upstream reply *********************)
\* what client.Do and the decoding of its reply can come to
Outcomes == {"ok", "429", "401", "5xx", "neterr", "badjson"}

ErrRes(st) == [status |-> st, err |-> TRUE, seq |-> 0, aircraft |-> <<>>]
OkRes(k, ac) == [status |-> "ok", err |-> FALSE, seq |-> k, aircraft |-> ac]

\* if resp.StatusCode == http.StatusTooManyRequests { return nil, fmt.Errorf(...) }
Result429 == ErrRes("429")

\* AirspaceData{Timestamp: ..., Aircraft: aircraft, Region: region,
\* Count: len(aircraft)}; seq numbers the upstream reply the aircraft came
\* from, and the wall-clock Timestamp is left out
MkSnap(region, r) ==
  [region |-> region, seq |-> r.seq, aircraft |-> r.aircraft, count |-> Len(r.aircraft)]

\* handleGetAircraft after fetchOpenSkyData: 500 with err.Error(), or the
\* fresh AirspaceData encoded (and not cached)
RestAfterFetch(g, r) ==
  IF r.err THEN [code |-> 500, snap |-> NoSnap]
           ELSE [code |-> 200, snap |-> MkSnap(freg[g], r)]

\* fetchOpenSkyData returns r to its caller
Return(g, r) ==
  /\ res' = [res EXCEPT ![g] = r]
  /\ hdr' = [hdr EXCEPT ![g] = NoHdr]
  /\ IF IsPoller(g)
       THEN /\ Goto(g, "fab_ret")
            /\ UNCHANGED resp
       ELSE /\ Goto(g, "r_done")
            /\ resp' = [resp EXCEPT ![g] = RestAfterFetch(g, r)]

\* client.Do(req) returns and the reply is classified; a 401 goes on to
\* clear the token, every other reply returns at once
FetchRespond(g) ==
  /\ pc[g] = "f_request"
  /\ \E st \in Outcomes :
       CASE st = "401" -> /\ Goto(g, "f_401")
                          /\ UNCHANGED <<res, resp, fetched, hdr>>
         [] st = "429" -> /\ Return(g, Result429)
                          /\ UNCHANGED fetched
         [] st = "ok"  -> \E sts \in ReplyBatches :
                            /\ fetched' = fetched + 1
                            /\ Return(g, OkRes(fetched + 1, ParseAircraftStates(sts)))
         [] OTHER      -> /\ Return(g, ErrRes(st))
                          /\ UNCHANGED fetched
  /\ UNCHANGED <<envVars, uiVars, parseVars, now, limiterVars, tokenVars, freg, calls,
                 cacheVars, bcastVars, connVars, regVars, anVars>>

\* the 401 branch returning without touching the token cache
Fetch401Keep(g) ==
  /\ pc[g] = "f_401"
  /\ oauthTokenMutex = <<>>
  /\ rejected' = rejected \cup (IF hdr[g].auth = "bearer" THEN {hdr[g].tok} ELSE {})
  /\ Return(g, ErrRes("401"))
  /\ UNCHANGED <<envVars, uiVars, parseVars, now, limiterVars, oauthToken, oauthTokenExpiry,
                 oauthTokenMutex, tokenSeq, expiresIn, freg, calls, fetched, cacheVars,
                 bcastVars, connVars, regVars, anVars>>

\* oauthTokenMutex.Lock(); oauthToken = ""; oauthTokenMutex.Unlock();
\* return nil, fmt.Errorf("OpenSky auth failed (401)")
Fetch401(g) ==
  /\ pc[g] = "f_401"
  /\ oauthTokenMutex = <<>>
  /\ oauthToken' = 0
  /\ rejected' = rejected \cup (IF hdr[g].auth = "bearer" THEN {hdr[g].tok} ELSE {})
  /\ Return(g, ErrRes("401"))
  /\ UNCHANGED <<envVars, uiVars, parseVars, now, limiterVars, oauthTokenExpiry, oauthTokenMutex,
                 tokenSeq, expiresIn, freg, calls, fetched, cacheVars, bcastVars,
                 connVars, regVars, anVars>>

(************************** pollOpenSky ***********************************)
\* pollOpenSky(regionName, interval): the initial fetchAndBroadcast
PollerStart(p) ==
  /\ pc[p] = "init"
  /\ CallFetch(p)
  /\ UNCHANGED <<envVars, uiVars, parseVars, now, limiterVars, tokenVars, freg, cacheVars, resp,
                 bcastVars, connVars, regVars, anVars>>

\* for range ticker.C { fetchAndBroadcast(...) }: the loop is back at the
\* channel and a tick arrives (the ticker's period is left open)
PollerTick(p) ==
  /\ pc[p] = "idle"
  /\ CallFetch(p)
  /\ UNCHANGED <<envVars, uiVars, parseVars, now, limiterVars, tokenVars, freg, cacheVars, resp,
                 bcastVars, connVars, regVars, anVars>>

\* data := &AirspaceData{...} of the fetch that has just returned to poller p
Data(p) == MkSnap(p[2], res[p])

\* fetchAndBroadcast going on to the cache whatever fetchOpenSkyData returned
FabAfterFetchAlways(r) == "store"

\* fetchAndBroadcast: if err != nil { log.Printf(...); return }
FabAfterFetch(r) == IF r.err THEN "return" ELSE "store"

\* a store that overwrites the entry of every region
StoreAll(p, d) ==
  /\ airspaceCache' = [k \in DOMAIN airspaceCache |-> d]
  /\ Goto(p, "bc_rlock")

\* going on to broadcastToClients without the store
StoreNothing(p, d) ==
  /\ UNCHANGED airspaceCache
  /\ Goto(p, "bc_rlock")

\* airspaceCache[regionName] = data, then on to broadcastToClients
Store(p, d) ==
  /\ airspaceCache' = [airspaceCache EXCEPT ![d.region] = d]
  /\ Goto(p, "bc_rlock")

\* a failed fetch that ends the poller's loop
FabReturnExit(p) ==
  /\ Goto(p, "exit")
  /\ res' = [res EXCEPT ![p] = NoRes]

\* log.Printf("Error fetching OpenSky data ..."); return: fetchAndBroadcast
\* is over and pollOpenSky is back at `for range ticker.C`
FabReturn(p) ==
  /\ Goto(p, "idle")
  /\ res' = [res EXCEPT ![p] = NoRes]

\* fetchAndBroadcast once fetchOpenSkyData has returned: on an error it
\* returns; else it builds data and calls cacheMutex.Lock(): the write
\* happens at once when no reader holds the lock, else the poller waits
FabStore(p) ==
  /\ pc[p] = "fab_ret"
  /\ IF FabAfterFetch(res[p]) = "return"
       THEN /\ FabReturn(p)
            /\ UNCHANGED cacheVars
       ELSE /\ UNCHANGED res
            /\ IF CanLock(cacheMutex)
                 THEN Store(p, Data(p)) /\ UNCHANGED cacheMutex
                 ELSE /\ cacheMutex' = Queued(cacheMutex, p)
                      /\ Goto(p, "fab_wait")
                      /\ UNCHANGED airspaceCache
  /\ UNCHANGED <<envVars, uiVars, parseVars, now, limiterVars, tokenVars, hdr, freg, calls, fetched,
                 resp, bcastVars, connVars, regVars, anVars>>

\* the poller's cacheMutex.Lock() returns once the readers have left
FabStoreWait(p) ==
  /\ pc[p] = "fab_wait"
  /\ CanLock(cacheMutex)
  /\ cacheMutex' = Dequeued(cacheMutex, p)
  /\ Store(p, Data(p))
  /\ UNCHANGED <<envVars, uiVars, parseVars, now, limiterVars, tokenVars, fetchVars, resp,
                 bcastVars, connVars, regVars, anVars>>

(****************** broadcastToClients / broadcastAnalysisToClients *******)
\* the two server-to-client messages: a raw snapshot, or
\* {type: "analysis", region, analysis}; from names the sending goroutine
SnapMsg(d, g) ==
  [kind |-> "snapshot", region |-> d.region, seq |-> d.seq, from |-> g,
   aircraft |-> d.aircraft, count |-> d.count]
AnMsg(r, a, g) == [kind |-> "analysis", region |-> r, seq |-> a.id, from |-> g]

\* what the broadcast loop of g sends: broadcastToClients(regionName, data)
\* for a poller, broadcastAnalysisToClients(regionName, analysis) for an analyst
Msg(g) == IF IsPoller(g) THEN SnapMsg(Data(g), g) ELSE AnMsg(g[2], adata[g], g)

\* the conns in the clients map
Registered == {c \in Conns : clients[c] # ""}

\* a connection that hands a later message to the client ahead of the
\* earlier ones
WriteJSONPrepend(c, m) ==
  /\ peer[c] # "stalled"
  /\ inbox' = [inbox EXCEPT ![c] = IF peer[c] = "open" THEN <<m>> \o @ ELSE @]

\* conn.WriteJSON(m) on connection c returns: the message is delivered when
\* the remote end is reading, an error is returned when it is gone; while
\* the remote end is stalled the call does not return
WriteJSON(c, m) ==
  /\ peer[c] # "stalled"
  /\ inbox' = [inbox EXCEPT ![c] = IF peer[c] = "open" THEN Append(@, m) ELSE @]

\* the broadcast function returns to fetchAndBroadcast / performAnalysis,
\* which return in turn: their locals are gone
BcReturn(g) ==
  /\ Goto(g, IF IsPoller(g) THEN "idle" ELSE "an_idle")
  /\ IF IsPoller(g)
       THEN res' = [res EXCEPT ![g] = NoRes] /\ UNCHANGED <<adata, content>>
       ELSE /\ adata' = [adata EXCEPT ![g] = NoAnalysis]
            /\ content' = [content EXCEPT ![g] = <<>>]
            /\ UNCHANGED res

\* clientsMutex.RLock(); the range over clients begins
BcRLock(g) ==
  /\ pc[g] = "bc_rlock"
  /\ CanRLock(clientsMutex)
  /\ IF Registered = {}
       THEN /\ BcReturn(g)
            /\ UNCHANGED <<clientsMutex, todo, cur>>
       ELSE /\ clientsMutex' = RLocked(clientsMutex, g)
            /\ \E c \in Registered :
                 /\ cur' = [cur EXCEPT ![g] = c]
                 /\ todo' = [todo EXCEPT ![g] = Registered \ {c}]
            /\ Goto(g, "bc_visit")
            /\ UNCHANGED <<res, adata, content>>
  /\ UNCHANGED <<envVars, uiVars, parseVars, now, limiterVars, tokenVars, hdr, freg, calls, fetched,
                 cacheVars, resp, attempted, failed, connVars, clients,
                 analysisCache, analyses, areg, aresp>>

\* the range loop goes on with the entries in left, or ends
BcAdvance(g, left) ==
  IF left = {}
    THEN /\ cur' = [cur EXCEPT ![g] = 0]
         /\ todo' = [todo EXCEPT ![g] = {}]
         /\ Goto(g, "bc_unlock")
    ELSE /\ \E c \in left :
              /\ cur' = [cur EXCEPT ![g] = c]
              /\ todo' = [todo EXCEPT ![g] = left \ {c}]
         /\ UNCHANGED pc

\* the body of the loop for a matching entry: the write, its error logged
BcWrite(g, c) ==
  /\ WriteJSON(c, Msg(g))
  /\ attempted' = [attempted EXCEPT ![g] = @ \cup {c}]
  /\ failed' = [failed EXCEPT ![g] = IF peer[c] = "open" THEN @ ELSE @ \cup {c}]

\* the loop body that returns from the broadcast at the first write error
BcVisitAbort(g) ==
  /\ pc[g] = "bc_visit"
  /\ IF clients[cur[g]] = Msg(g).region
       THEN /\ BcWrite(g, cur[g])
            /\ BcAdvance(g, IF peer[cur[g]] = "open" THEN todo[g] ELSE {})
       ELSE /\ BcAdvance(g, todo[g])
            /\ UNCHANGED <<attempted, failed, inbox>>
  /\ UNCHANGED <<envVars, uiVars, parseVars, now, limiterVars, tokenVars, fetchVars, cacheVars, resp,
                 peer, inmsg, msgs, wsreg, request, regVars, anVars>>

\* the loop body without the region test
BcVisitAll(g) ==
  /\ pc[g] = "bc_visit"
  /\ BcWrite(g, cur[g])
  /\ BcAdvance(g, todo[g])
  /\ UNCHANGED <<envVars, uiVars, parseVars, now, limiterVars, tokenVars, fetchVars, cacheVars, resp,
                 peer, inmsg, msgs, wsreg, request, regVars, anVars>>

\* one iteration: if clientRegion == region { if err := conn.WriteJSON(..);
\* err != nil { log.Printf(...) } }
BcVisit(g) ==
  /\ pc[g] = "bc_visit"
  /\ IF clients[cur[g]] = Msg(g).region
       THEN BcWrite(g, cur[g])
       ELSE UNCHANGED <<attempted, failed, inbox>>
  /\ BcAdvance(g, todo[g])
  /\ UNCHANGED <<envVars, uiVars, parseVars, now, limiterVars, tokenVars, fetchVars, cacheVars, resp,
                 peer, inmsg, msgs, wsreg, request, regVars, anVars>>

\* the loop is over: the deferred clientsMutex.RUnlock() runs and the
\* broadcast returns
BcUnlock(g) ==
  /\ pc[g] = "bc_unlock"
  /\ clientsMutex' = RUnlocked(clientsMutex, g)
  /\ attempted' = [attempted EXCEPT ![g] = {}]
  /\ failed' = [failed EXCEPT ![g] = {}]
  /\ BcReturn(g)
  /\ UNCHANGED <<envVars, uiVars, parseVars, now, limiterVars, tokenVars, hdr, freg, calls, fetched,
                 cacheVars, resp, todo, cur, connVars, clients,
                 analysisCache, analyses, areg, aresp>>

(************************** handleGetAircraft *****************************)
\* a lookup that finds every name
KnownRegionAny(region) == TRUE

\* regionDef, ok := regions[region]
KnownRegion(region) == region \in Regions

\* the cache is read under RLock; a hit is encoded, an unknown region gets
\* 400, a known one is fetched synchronously
HandleGetAircraft(g) ==
  /\ pc[g] = "r_new"
  /\ CanRLock(cacheMutex)
  /\ \E q \in RestQueries :
       LET region == DefaultRegion(q) IN
         IF airspaceCache[region] # NoSnap
           THEN /\ resp' = [resp EXCEPT ![g] = [code |-> 200, snap |-> airspaceCache[region]]]
                /\ freg' = [freg EXCEPT ![g] = region]
                /\ Goto(g, "r_done")
                /\ UNCHANGED <<hdr, res, calls, fetched>>
           ELSE IF ~KnownRegion(region)
             THEN /\ resp' = [resp EXCEPT ![g] = [code |-> 400, snap |-> NoSnap]]
                  /\ freg' = [freg EXCEPT ![g] = region]
                  /\ Goto(g, "r_done")
                  /\ UNCHANGED <<hdr, res, calls, fetched>>
             ELSE /\ freg' = [freg EXCEPT ![g] = region]
                  /\ CallFetch(g)
                  /\ UNCHANGED resp
  /\ UNCHANGED <<envVars, uiVars, parseVars, now, limiterVars, tokenVars, cacheVars, bcastVars,
                 connVars, regVars, anVars>>

(******************************* time *************************************)
\* a second passes.  The clock is advanced only while a comparison of the
\* program still depends on it: the limiter's gap is not over, a sleeper
\* has not reached its deadline, or the cached token is still valid
Tick ==
  /\ now < ProcessStart + MaxElapsed
  /\ \/ now - lastOpenSkyCall < MinGap
     \/ \E g \in Fetchers : pc[g] = "f_sleep" /\ now < wake[g]
     \/ TokenValid
  /\ now' = now + 1
  /\ UNCHANGED <<envVars, uiVars, parseVars, pc, limiterVars, tokenVars, fetchVars, cacheVars, resp,
                 bcastVars, connVars, regVars, anVars>>

(*************************** handleWebSocket ******************************)
H(c) == <<"ws", c>>

\* what a client may send: a subscribe for some region name, a JSON message
\* with another action, or a payload that is not valid JSON (here the text
\* of a subscribe cut short)
ClientMessages ==
  {[json |-> TRUE, action |-> "subscribe", region |-> r] : r \in RequestRegions}
    \cup {[json |-> TRUE, action |-> "ping", region |-> "taiwan"],
          [json |-> FALSE, action |-> "subscribe", region |-> "taiwan"]}

\* json.Unmarshal(msg, &request): a payload that is not valid JSON is
\* rejected before any field is set
Unmarshal(m) ==
  IF m.json THEN [err |-> FALSE, action |-> m.action, region |-> m.region]
            ELSE [err |-> TRUE, action |-> "", region |-> ""]

\* the test without the comparison of request.Action
IsSubscribeAnyAction(rq) == ~rq.err

\* if json.Unmarshal(msg, &request) == nil && request.Action == "subscribe"
IsSubscribe(rq) == ~rq.err /\ rq.action = "subscribe"

\* clientsMutex.Lock(); clients[conn] = region; clientsMutex.Unlock(): done
\* at once when no reader holds the lock, else the handler waits
Register(c, region, done, wait) ==
  /\ wsreg' = [wsreg EXCEPT ![c] = region]
  /\ IF CanLock(clientsMutex)
       THEN /\ clients' = [clients EXCEPT ![c] = region]
            /\ Goto(H(c), done)
            /\ UNCHANGED clientsMutex
       ELSE /\ clientsMutex' = Queued(clientsMutex, H(c))
            /\ Goto(H(c), wait)
            /\ UNCHANGED clients

\* clientsMutex.Lock() returns once the readers have left
RegisterWait(c, done) ==
  /\ CanLock(clientsMutex)
  /\ clientsMutex' = Dequeued(clientsMutex, H(c))
  /\ clients' = [clients EXCEPT ![c] = wsreg[c]]
  /\ Goto(H(c), done)

\* cacheMutex.RLock(); if data, exists := airspaceCache[region]; exists: the
\* write begins with the read lock held; else RUnlock at once
CachedLookup(c, write, done) ==
  /\ CanRLock(cacheMutex)
  /\ IF airspaceCache[wsreg[c]] # NoSnap
       THEN /\ cacheMutex' = RLocked(cacheMutex, H(c))
            /\ Goto(H(c), write)
       ELSE /\ Goto(H(c), done)
            /\ UNCHANGED cacheMutex

\* conn.WriteJSON(data) returns (its error is dropped); cacheMutex.RUnlock()
CachedWrite(c, done) ==
  /\ WriteJSON(c, SnapMsg(airspaceCache[wsreg[c]], H(c)))
  /\ cacheMutex' = RUnlocked(cacheMutex, H(c))
  /\ Goto(H(c), done)

\* upgrader.Upgrade succeeds; region from the query, "taiwan" by default;
\* clientsMutex.Lock(); clients[conn] = region
WsConnect(c) ==
  /\ pc[H(c)] = "ws_new"
  /\ peer' = [peer EXCEPT ![c] = "open"]
  /\ \E q \in ConnectQueries :
       Register(c, DefaultRegion(q), "ws_init", "ws_reg_wait")
  /\ UNCHANGED <<envVars, uiVars, parseVars, now, limiterVars, tokenVars, fetchVars, cacheVars, resp,
                 bcastVars, inbox, inmsg, msgs, request, anVars>>

WsConnectWait(c) ==
  /\ pc[H(c)] = "ws_reg_wait"
  /\ RegisterWait(c, "ws_init")
  /\ UNCHANGED <<envVars, uiVars, parseVars, now, limiterVars, tokenVars, fetchVars, cacheVars, resp,
                 bcastVars, connVars, anVars>>

\* "Send initial cached data if available"
WsInitLookup(c) ==
  /\ pc[H(c)] = "ws_init"
  /\ CachedLookup(c, "ws_init_write", "ws_loop")
  /\ UNCHANGED <<envVars, uiVars, parseVars, now, limiterVars, tokenVars, fetchVars, airspaceCache,
                 resp, bcastVars, connVars, regVars, anVars>>

WsInitWrite(c) ==
  /\ pc[H(c)] = "ws_init_write"
  /\ CachedWrite(c, "ws_loop")
  /\ UNCHANGED <<envVars, uiVars, parseVars, now, limiterVars, tokenVars, fetchVars, airspaceCache,
                 resp, bcastVars, peer, inmsg, msgs, wsreg, request, regVars, anVars>>

\* conn.ReadMessage() returns a message: a payload that decodes with action
\* "subscribe" sets clients[conn] = request.Region, any other is dropped
WsRead(c) ==
  /\ pc[H(c)] = "ws_loop"
  /\ inmsg[c] # NoIn
  /\ inmsg' = [inmsg EXCEPT ![c] = NoIn]
  /\ request' = [request EXCEPT ![c] = Unmarshal(inmsg[c])]
  /\ IF IsSubscribe(Unmarshal(inmsg[c]))
       THEN Register(c, Unmarshal(inmsg[c]).region, "ws_sub", "ws_sub_wait")
       ELSE UNCHANGED <<pc, wsreg, regVars>>
  /\ UNCHANGED <<envVars, uiVars, parseVars, now, limiterVars, tokenVars, fetchVars, cacheVars, resp,
                 bcastVars, peer, inbox, msgs, anVars>>

WsSubWait(c) ==
  /\ pc[H(c)] = "ws_sub_wait"
  /\ RegisterWait(c, "ws_sub")
  /\ UNCHANGED <<envVars, uiVars, parseVars, now, limiterVars, tokenVars, fetchVars, cacheVars, resp,
                 bcastVars, connVars, anVars>>

\* "Send cached data for new region"
WsSubLookup(c) ==
  /\ pc[H(c)] = "ws_sub"
  /\ CachedLookup(c, "ws_sub_write", "ws_loop")
  /\ UNCHANGED <<envVars, uiVars, parseVars, now, limiterVars, tokenVars, fetchVars, airspaceCache,
                 resp, bcastVars, connVars, regVars, anVars>>

WsSubWrite(c) ==
  /\ pc[H(c)] = "ws_sub_write"
  /\ CachedWrite(c, "ws_loop")
  /\ UNCHANGED <<envVars, uiVars, parseVars, now, limiterVars, tokenVars, fetchVars, airspaceCache,
                 resp, bcastVars, peer, inmsg, msgs, wsreg, request, regVars, anVars>>

\* delete(clients, conn); conn.Close(): the connection and what it carried
\* are gone
Unregister(c) ==
  /\ clients' = [clients EXCEPT ![c] = ""]
  /\ inbox' = [inbox EXCEPT ![c] = <<>>]
  /\ wsreg' = [wsreg EXCEPT ![c] = ""]
  /\ request' = [request EXCEPT ![c] = NoRequest]
  /\ Goto(H(c), "ws_closed")

\* conn.ReadMessage() returns an error: break, and the deferred function
\* runs clientsMutex.Lock(); delete(clients, conn)
WsReadError(c) ==
  /\ pc[H(c)] = "ws_loop"
  /\ peer[c] = "gone"
  /\ inmsg[c] = NoIn
  /\ IF CanLock(clientsMutex)
       THEN /\ Unregister(c)
            /\ UNCHANGED clientsMutex
       ELSE /\ clientsMutex' = Queued(clientsMutex, H(c))
            /\ Goto(H(c), "ws_close_wait")
            /\ UNCHANGED <<clients, inbox, wsreg, request>>
  /\ UNCHANGED <<envVars, uiVars, parseVars, now, limiterVars, tokenVars, fetchVars, cacheVars, resp,
                 bcastVars, peer, inmsg, msgs, anVars>>

WsCloseWait(c) ==
  /\ pc[H(c)] = "ws_close_wait"
  /\ CanLock(clientsMutex)
  /\ clientsMutex' = Dequeued(clientsMutex, H(c))
  /\ Unregister(c)
  /\ UNCHANGED <<envVars, uiVars, parseVars, now, limiterVars, tokenVars, fetchVars, cacheVars, resp,
                 bcastVars, peer, inmsg, msgs, anVars>>

(************************* the remote end of a connection *****************)
Connected(c) == pc[H(c)] \notin {"ws_new", "ws_close_wait", "ws_closed"}

\* the client sends a message
ClientSend(c) ==
  /\ Connected(c)
  /\ peer[c] \in {"open", "stalled"}
  /\ inmsg[c] = NoIn
  /\ msgs[c] < MaxMsgs
  /\ msgs' = [msgs EXCEPT ![c] = @ + 1]
  /\ \E m \in ClientMessages : inmsg' = [inmsg EXCEPT ![c] = m]
  /\ UNCHANGED <<envVars, uiVars, parseVars, now, pc, limiterVars, tokenVars, fetchVars, cacheVars,
                 resp, bcastVars, peer, inbox, wsreg, request, regVars, anVars>>

\* the client stops reading: writes to it no longer return
ClientStall(c) ==
  /\ Connected(c)
  /\ peer[c] = "open"
  /\ peer' = [peer EXCEPT ![c] = "stalled"]
  /\ UNCHANGED <<envVars, uiVars, parseVars, now, pc, limiterVars, tokenVars, fetchVars, cacheVars,
                 resp, bcastVars, inbox, inmsg, msgs, wsreg, request, regVars, anVars>>

\* the client reads again
ClientResume(c) ==
  /\ peer[c] = "stalled"
  /\ peer' = [peer EXCEPT ![c] = "open"]
  /\ UNCHANGED <<envVars, uiVars, parseVars, now, pc, limiterVars, tokenVars, fetchVars, cacheVars,
                 resp, bcastVars, inbox, inmsg, msgs, wsreg, request, regVars, anVars>>

\* the client goes away: writes to it and reads from it fail
ClientGone(c) ==
  /\ Connected(c)
  /\ peer[c] \in {"open", "stalled"}
  /\ peer' = [peer EXCEPT ![c] = "gone"]
  /\ UNCHANGED <<envVars, uiVars, parseVars, now, pc, limiterVars, tokenVars, fetchVars, cacheVars,
                 resp, bcastVars, inbox, inmsg, msgs, wsreg, request, regVars, anVars>>

(*********************** the browser client (App.jsx) *********************)
\* the keys of REGIONS
UiRegions == {"taiwan", "socal", "europe"}

\* a filter that lets every message through
AcceptsAny(m, ref) == TRUE

\* if (!data.region || data.region === regionRef.current)
Accepts(m, ref) == m.region = "" \/ m.region = ref

\* handleRegionChange(newRegion): the ref is updated first, the stale data
\* is cleared, and the subscribe is sent when the socket is open
HandleRegionChange(c) ==
  /\ peer[c] # "gone"
  /\ \E r \in UiRegions \ {regionRef[c]} :
       /\ regionRef' = [regionRef EXCEPT ![c] = r]
       /\ display' = [display EXCEPT ![c] = NoDisplay]
       /\ IF Connected(c) /\ peer[c] = "open"
            THEN /\ inmsg[c] = NoIn
                 /\ msgs[c] < MaxMsgs
                 /\ msgs' = [msgs EXCEPT ![c] = @ + 1]
                 /\ inmsg' = [inmsg EXCEPT ![c] =
                                [json |-> TRUE, action |-> "subscribe", region |-> r]]
            ELSE UNCHANGED <<inmsg, msgs>>
  /\ UNCHANGED <<envVars, nread, parseVars, now, pc, limiterVars, tokenVars, fetchVars,
                 cacheVars, resp, bcastVars, peer, inbox, wsreg, request, regVars, anVars>>

\* ws.onmessage for the next message the connection has delivered: an
\* analysis message sets the analysis shown, a snapshot sets the aircraft
\* list, each only when the filter accepts its region tag
OnMessage(c) ==
  /\ peer[c] = "open"
  /\ nread[c] < Len(inbox[c])
  /\ nread' = [nread EXCEPT ![c] = @ + 1]
  /\ LET m == inbox[c][nread[c] + 1] IN
       display' = [display EXCEPT ![c] =
         IF ~Accepts(m, regionRef[c]) THEN @
         ELSE IF m.kind = "analysis" THEN [@ EXCEPT !.analysis = m.region]
         ELSE [@ EXCEPT !.aircraft = m.region]]
  /\ UNCHANGED <<envVars, regionRef, parseVars, now, pc, limiterVars, tokenVars, fetchVars,
                 cacheVars, resp, bcastVars, connVars, regVars, anVars>>

\* new WebSocket(`${getWsUrl()}?region=taiwan`): the browser's upgrade request
ClientConnect(c) == WsConnect(c) /\ wsreg'[c] = "taiwan"

(************************ callOpenAIAnalysis ******************************)
\* a reply text is a sequence of pieces: a structural brace of a JSON
\* object, a member without braces ("m"), a member whose string value
\* contains a brace character ("s{", "s}"), the text null, or prose and
\* code fences ("p")
\* the pieces in which the scan "c == '{'" / "c == '}'" finds a brace
IsOpen(t)  == t \in {"{", "s{"}
IsClose(t) == t \in {"}", "s}"}


\* the reply texts of length 1..MaxLen, and the two the backend is run with:
\* an object wrapped in prose, and prose alone
Contents ==
  UNION {[1..n -> {"{", "}", "m", "s{", "s}", "null", "p"}] : n \in 1..MaxLen}
ReplyTexts == {<<"p", "{", "m", "}">>, <<"p">>}

\* findJSONStart: index of the first '{', or -1
findJSONStart(s) ==
  IF \E i \in DOMAIN s : IsOpen(s[i])
    THEN (CHOOSE i \in DOMAIN s :
            IsOpen(s[i]) /\ \A j \in 1..(i - 1) : ~IsOpen(s[j])) - 1
    ELSE -1

\* depth after the first i pieces of s: '{' depth++, '}' depth--
RECURSIVE DepthAfter(_, _)
DepthAfter(s, i) ==
  IF i = 0 THEN 0
  ELSE DepthAfter(s, i - 1)
         + (IF IsOpen(s[i]) THEN 1 ELSE IF IsClose(s[i]) THEN -1 ELSE 0)

\* findJSONEnd: index of the first '}' at which depth is back to 0, or -1
findJSONEnd(s) ==
  IF \E i \in DOMAIN s : IsClose(s[i]) /\ DepthAfter(s, i) = 0
    THEN (CHOOSE i \in DOMAIN s :
            /\ IsClose(s[i]) /\ DepthAfter(s, i) = 0
            /\ \A j \in 1..(i - 1) : ~(IsClose(s[j]) /\ DepthAfter(s, j) = 0)) - 1
    ELSE -1

\* jsonContent := content[jsonStart:jsonEnd]
JsonContent(c) ==
  LET jsonStart == IF findJSONStart(c) >= 0 THEN findJSONStart(c) ELSE 0
      rest      == SubSeq(c, jsonStart + 1, Len(c))
      jsonEnd   == IF findJSONEnd(rest) >= 0 THEN jsonStart + findJSONEnd(rest) + 1
                                             ELSE Len(c)
  IN SubSeq(c, jsonStart + 1, jsonEnd)

\* nesting after the first i pieces, as a JSON decoder sees it: braces
\* inside string values do not count
RECURSIVE Nesting(_, _)
Nesting(s, i) ==
  IF i = 0 THEN 0
  ELSE Nesting(s, i - 1)
         + (IF s[i] = "{" THEN 1 ELSE IF s[i] = "}" THEN -1 ELSE 0)

\* the text is one JSON object
IsObject(s) ==
  /\ Len(s) >= 2 /\ s[1] = "{" /\ s[Len(s)] = "}"
  /\ \A i \in DOMAIN s : s[i] \in {"{", "}", "m", "s{", "s}"}
  /\ \A i \in 1..(Len(s) - 1) : Nesting(s, i) > 0
  /\ Nesting(s, Len(s)) = 0

\* json.Unmarshal([]byte(jsonContent), &analysis) returns nil: for a JSON
\* object, and for the text null, which leaves the struct as it is
UnmarshalOK(s) == IsObject(s) \/ s = <<"null">>

\* the degraded record without the reply text
CallOpenAIAnalysisDropsRaw(c, region, id) ==
  IF ~UnmarshalOK(JsonContent(c))
    THEN [region |-> region, id |-> id, level |-> "UNKNOWN", score |-> 0, raw |-> <<>>]
    ELSE [region |-> region, id |-> id, level |-> "HIGH", score |-> 70, raw |-> <<>>]

\* what callOpenAIAnalysis returns for a reply text: the degraded record,
\* or the decoded one (HIGH / 70 stand for what the object says) with
\* Timestamp and Region set
CallOpenAIAnalysis(c, region, id) ==
  IF ~UnmarshalOK(JsonContent(c))
    THEN [region |-> region, id |-> id, level |-> "UNKNOWN", score |-> 0, raw |-> c]
    ELSE IF IsObject(JsonContent(c))
      THEN [region |-> region, id |-> id, level |-> "HIGH", score |-> 70, raw |-> <<>>]
      ELSE [region |-> region, id |-> id, level |-> "", score |-> 0, raw |-> <<>>]

(************** runTacticalAnalysis / performAnalysis *********************)
\* the guards without the test of len(data.Aircraft)
CanAnalyzeAnyData(region) == openaiKey /\ airspaceCache[region] # NoSnap

\* apiKey != "" and exists && len(data.Aircraft) != 0
CanAnalyze(region) ==
  openaiKey /\ airspaceCache[region] # NoSnap /\ Len(airspaceCache[region].aircraft) # 0

\* a tick of runTacticalAnalysis: performAnalysis up to the call of the
\* reasoning service; it returns at once without a key or without aircraft
PerformAnalysis(a) ==
  /\ pc[a] = "an_idle"
  /\ analyses < MaxAnalyses
  /\ CanRLock(cacheMutex)
  /\ IF CanAnalyze(a[2])
       THEN /\ analyses' = analyses + 1
            /\ Goto(a, "an_call")
       ELSE /\ Goto(a, "an_idle")
            /\ UNCHANGED analyses
  /\ UNCHANGED <<envVars, uiVars, parseVars, now, limiterVars, tokenVars, fetchVars, cacheVars, resp,
                 bcastVars, connVars, regVars, analysisCache, adata, content, areg, aresp>>

\* callOpenAIAnalysis returns, with a reply text among texts: an error is
\* logged; an analysis is stored in analysisCache under its mutex, then
\* broadcast
AnalysisReplyFrom(a, texts) ==
  /\ pc[a] = "an_call"
  /\ \/ /\ Goto(a, "an_idle")
        /\ UNCHANGED <<analysisCache, adata, content>>
     \/ \E c \in texts :
          LET an == CallOpenAIAnalysis(c, a[2], analyses) IN
            /\ content' = [content EXCEPT ![a] = c]
            /\ adata' = [adata EXCEPT ![a] = an]
            /\ analysisCache' = [analysisCache EXCEPT ![a[2]] = an]
            /\ Goto(a, "bc_rlock")
  /\ UNCHANGED <<envVars, uiVars, parseVars, now, limiterVars, tokenVars, fetchVars, cacheVars, resp,
                 bcastVars, connVars, regVars, analyses, areg, aresp>>

AnalysisReply(a) == AnalysisReplyFrom(a, ReplyTexts)

(***************************** handleRunAnalysis **************************)
\* handleRunAnalysis up to the call of the reasoning service: 405 for
\* another method, 503 without a key or without aircraft data
HandleRunAnalysis(g) ==
  /\ pc[g] = "a_new"
  /\ CanRLock(cacheMutex)
  /\ \E method \in {"POST", "GET"} : \E q \in {"", "socal", "mars"} :
       LET region == DefaultRegion(q) IN
         /\ areg' = [areg EXCEPT ![g] = region]
         /\ IF method # "POST"
              THEN /\ aresp' = [aresp EXCEPT ![g] = [code |-> 405, an |-> NoAnalysis]]
                   /\ Goto(g, "a_done")
                   /\ UNCHANGED analyses
              ELSE IF ~CanAnalyze(region)
                THEN /\ aresp' = [aresp EXCEPT ![g] = [code |-> 503, an |-> NoAnalysis]]
                     /\ Goto(g, "a_done")
                     /\ UNCHANGED analyses
                ELSE /\ analyses < MaxAnalyses
                     /\ analyses' = analyses + 1
                     /\ Goto(g, "a_call")
                     /\ UNCHANGED aresp
  /\ UNCHANGED <<envVars, uiVars, parseVars, now, limiterVars, tokenVars, fetchVars, cacheVars, resp,
                 bcastVars, connVars, regVars, analysisCache, adata, content>>

\* callOpenAIAnalysis returns to handleRunAnalysis: 500 with the error
\* text, or the analysis stored in analysisCache and encoded in the reply
RunAnalysisReply(g) ==
  /\ pc[g] = "a_call"
  /\ \/ /\ aresp' = [aresp EXCEPT ![g] = [code |-> 500, an |-> NoAnalysis]]
        /\ UNCHANGED <<analysisCache, content>>
     \/ \E c \in ReplyTexts :
          LET an == CallOpenAIAnalysis(c, areg[g], analyses) IN
            /\ content' = [content EXCEPT ![g] = c]
            /\ analysisCache' = [analysisCache EXCEPT ![areg[g]] = an]
            /\ aresp' = [aresp EXCEPT ![g] = [code |-> 200, an |-> an]]
  /\ Goto(g, "a_done")
  /\ UNCHANGED <<envVars, uiVars, parseVars, now, limiterVars, tokenVars, fetchVars, cacheVars, resp,
                 bcastVars, connVars, regVars, analyses, adata, areg>>

(****************** parseAircraftStates, row by row ***********************)
\* one iteration of "for _, state := range states"
ParseRow ==
  /\ pos <= Len(states)
  /\ aircraft' =
       IF Len(states[pos]) < MinFields
         THEN aircraft
         ELSE IF Keep(MkAircraft(states[pos]))
                THEN Append(aircraft, MkAircraft(states[pos]))
                ELSE aircraft
  /\ pos' = pos + 1
  /\ UNCHANGED <<envVars, uiVars, states, now, pc, limiterVars, tokenVars, fetchVars,
                 cacheVars, resp, bcastVars, connVars, regVars, anVars>>

(************************* specifications *********************************)
FetchStep(g) ==
  \/ FetchLock(g) \/ FetchWake(g) \/ GetOpenSkyToken(g)
  \/ TokenExchange(g) \/ FetchRespond(g) \/ Fetch401(g)

PollerStep(p) ==
  \/ PollerStart(p) \/ PollerTick(p) \/ FabStore(p) \/ FabStoreWait(p)

BroadcastStep(g) == BcRLock(g) \/ BcVisit(g) \/ BcUnlock(g)

\* connect, the initial send, and the end of the read loop
ConnectStep(c) ==
  \/ WsConnect(c) \/ WsConnectWait(c) \/ WsInitLookup(c) \/ WsInitWrite(c)
  \/ WsReadError(c) \/ WsCloseWait(c)

\* a subscribe (or other) message and its handling
SubscribeStep(c) ==
  \/ ClientSend(c) \/ WsRead(c) \/ WsSubWait(c) \/ WsSubLookup(c) \/ WsSubWrite(c)

AnalystStep(a) == PerformAnalysis(a) \/ AnalysisReply(a)

AnalyzeStep(g) == HandleRunAnalysis(g) \/ RunAnalysisReply(g)

\* the whole backend
Next ==
  \/ Tick
  \/ \E g \in Fetchers : FetchStep(g)
  \/ \E p \in Pollers : PollerStep(p)
  \/ \E g \in Reqs : HandleGetAircraft(g)
  \/ \E g \in Pollers \cup Analysts : BroadcastStep(g)
  \/ \E c \in Conns :
       \/ ConnectStep(c) \/ SubscribeStep(c)
       \/ ClientStall(c) \/ ClientResume(c) \/ ClientGone(c)
       \/ HandleRegionChange(c) \/ OnMessage(c)
  \/ \E a \in Analysts : AnalystStep(a)
  \/ \E g \in AReqs : AnalyzeStep(g)

Spec == Init /\ [][Next]_vars

\* the fetch path: the pollers and the REST handler with no client connected
InitFetch ==
  /\ env \in EnvConfigs
  /\ openaiKey = FALSE
  /\ Boot
  /\ NoParse

\* (the REST handler reads the cache in one step, so a poller's
\* cacheMutex.Lock() never waits here)
NextFetch ==
  \/ Tick
  \/ \E g \in Fetchers : FetchStep(g)
  \/ \E p \in Pollers : PollerStart(p) \/ PollerTick(p) \/ FabStore(p) \/ BcRLock(p)
  \/ \E g \in Reqs : HandleGetAircraft(g)

SpecFetch == InitFetch /\ [][NextFetch]_vars

\* parseAircraftStates applied to the rows of an upstream reply
InitParse ==
  /\ env = [clientId |-> FALSE, clientSecret |-> FALSE,
            username |-> FALSE, password |-> FALSE]
  /\ openaiKey = FALSE
  /\ Boot
  /\ states \in Batches
  /\ pos = 1
  /\ aircraft = <<>>

NextParse == ParseRow

SpecParse == InitParse /\ [][NextParse]_vars

\* the push path: the pollers, the analysis loops and the WebSocket
\* connections, started with basic-auth credentials and a reasoning-service key
BasicAuthEnv ==
  [clientId |-> FALSE, clientSecret |-> FALSE, username |-> TRUE, password |-> TRUE]

InitWS ==
  /\ env = BasicAuthEnv
  /\ openaiKey = TRUE
  /\ Boot
  /\ NoParse

\* the goroutines of one polled region
Taiwan == {<<"poll", "taiwan">>, <<"an", "taiwan">>}

\* the fetch-and-broadcast cycle of a poller, without the token cache
CycleStep(p) ==
  \/ FetchLock(p) \/ FetchWake(p) \/ FetchRespond(p) \/ Fetch401(p)
  \/ PollerStep(p)

\* a poller's first fetchAndBroadcast, which never sleeps in the limiter
FirstCycleStep(p) ==
  \/ PollerStart(p) \/ FetchLock(p) \/ FetchRespond(p) \/ Fetch401(p)
  \/ FabStore(p)

\* the first snapshot and analysis broadcasts, to connections that come and go
NextPush ==
  \/ \E p \in Pollers \cap Taiwan : FirstCycleStep(p)
  \/ \E g \in Taiwan : BroadcastStep(g)
  \/ \E c \in Conns : ConnectStep(c) \/ ClientGone(c)
  \/ \E a \in Analysts \cap Taiwan : AnalystStep(a)

SpecPush == InitWS /\ [][NextPush]_vars

\* a poller's successive cycles, with connections that come and go
NextPoll ==
  \/ Tick
  \/ \E p \in Pollers \cap Taiwan : CycleStep(p) \/ BroadcastStep(p)
  \/ \E c \in Conns : ConnectStep(c) \/ ClientGone(c)

SpecPoll == InitWS /\ [][NextPoll]_vars

\* one connection changing its subscription; alone, it never has to wait
\* for the registry when it connects
NextSub ==
  \/ Tick
  \/ \E p \in Pollers \cap Taiwan : CycleStep(p)
  \/ \E g \in Taiwan : BroadcastStep(g)
  \/ \E c \in {1} :
       \/ WsConnect(c) \/ WsInitLookup(c) \/ WsInitWrite(c)
       \/ WsReadError(c) \/ WsCloseWait(c)
       \/ SubscribeStep(c) \/ ClientGone(c)
  \/ \E a \in Analysts \cap Taiwan : AnalystStep(a)

SpecSub == InitWS /\ [][NextSub]_vars

\* a snapshot broadcast to clients that may stop reading.  The scheduler
\* runs every goroutine that can take a step; nothing makes a client read
NextStall ==
  \/ \E p \in Pollers \cap Taiwan : FirstCycleStep(p) \/ BroadcastStep(p)
  \/ \E c \in Conns : ConnectStep(c) \/ ClientStall(c) \/ ClientResume(c) \/ ClientGone(c)

SpecStall ==
  /\ InitWS
  /\ [][NextStall]_vars
  /\ \A p \in Pollers \cap Taiwan : WF_vars(FirstCycleStep(p) \/ BroadcastStep(p))
  /\ \A c \in Conns : WF_vars(ConnectStep(c))

\* the two background loops of taiwan over successive ticks, with one
\* connection that stays (alone, it never has to wait for the registry
\* when it connects).  The scheduler runs every goroutine that can take a
\* step, and time passes
NextRetry ==
  \/ Tick
  \/ \E p \in Pollers \cap Taiwan : CycleStep(p) \/ BroadcastStep(p)
  \/ \E a \in Analysts \cap Taiwan : AnalystStep(a) \/ BroadcastStep(a)
  \/ \E c \in {1} :
       WsConnect(c) \/ WsInitLookup(c) \/ WsInitWrite(c)

SpecRetry ==
  /\ InitWS
  /\ [][NextRetry]_vars
  /\ WF_vars(Tick)
  /\ \A p \in Pollers \cap Taiwan : WF_vars(CycleStep(p) \/ BroadcastStep(p))
  /\ \A a \in Analysts \cap Taiwan : WF_vars(AnalystStep(a) \/ BroadcastStep(a))
  /\ WF_vars(WsInitLookup(1) \/ WsInitWrite(1))

\* the goroutines that hold a lock across a sleep or a network call, with
\* OAuth2 credentials: the first cycle of the taiwan poller and a GET
\* /api/aircraft, which meet in the limiter and at the token cache, the
\* poller's broadcast, and one connection that connects and closes
InitLocks ==
  /\ env = [clientId |-> TRUE, clientSecret |-> TRUE, username |-> FALSE, password |-> FALSE]
  /\ openaiKey = TRUE
  /\ Boot
  /\ NoParse

NextLocks ==
  \/ Tick
  \/ \E p \in Pollers \cap Taiwan : PollerStart(p) \/ FabStore(p) \/ BroadcastStep(p)
  \/ \E g \in (Pollers \cap Taiwan) \cup Reqs : FetchStep(g)
  \/ \E g \in Reqs : HandleGetAircraft(g)
  \/ \E c \in {1} :
       \/ WsConnect(c) \/ WsInitLookup(c) \/ WsInitWrite(c)
       \/ WsReadError(c) \/ WsCloseWait(c) \/ ClientGone(c)

SpecLocks == InitLocks /\ [][NextLocks]_vars

\* the analysis paths: the first snapshot of taiwan, its periodic analysis,
\* POST /api/analyze, and one connection that comes and goes (alone, it
\* never has to wait for the registry when it connects)
InitAnalyze ==
  /\ env = BasicAuthEnv
  /\ openaiKey \in BOOLEAN
  /\ Boot
  /\ NoParse

NextAnalyze ==
  \/ \E p \in Pollers \cap Taiwan : FirstCycleStep(p)
  \/ \E g \in Taiwan : BroadcastStep(g)
  \/ \E a \in Analysts \cap Taiwan : AnalystStep(a)
  \/ \E g \in AReqs : AnalyzeStep(g)
  \/ \E c \in {1} :
       \/ WsConnect(c) \/ WsInitLookup(c) \/ WsInitWrite(c)
       \/ WsReadError(c) \/ WsCloseWait(c) \/ ClientGone(c)

SpecAnalyze == InitAnalyze /\ [][NextAnalyze]_vars

\* the Snapshot Cache with its writer and all its readers: the first cycle
\* of taiwan's poller (which sleeps in the limiter when the REST handler
\* has fetched before it), GET /api/aircraft with its synchronous fetch, both analysis
\* paths, the broadcasts and one connection that stays
NextCache ==
  \/ Tick
  \/ \E p \in Pollers \cap Taiwan :
       FirstCycleStep(p) \/ FetchWake(p)
  \/ \E g \in Reqs :
       \/ HandleGetAircraft(g)
       \/ FetchLock(g) \/ FetchWake(g) \/ FetchRespond(g) \/ Fetch401(g)
  \/ \E g \in Taiwan : BroadcastStep(g)
  \/ \E a \in Analysts \cap Taiwan : AnalystStep(a)
  \/ \E g \in AReqs : AnalyzeStep(g)
  \/ \E c \in {1} : WsConnect(c) \/ WsInitLookup(c) \/ WsInitWrite(c)

SpecCache == InitWS /\ [][NextCache]_vars

\* one browser client on a connection that stays: its region changes and
\* its message handler, with the first snapshot of taiwan and its
\* periodic analysis
NextClient ==
  \/ \E p \in Pollers \cap Taiwan : FirstCycleStep(p)
  \/ \E g \in Taiwan : BroadcastStep(g)
  \/ \E a \in Analysts \cap Taiwan : AnalystStep(a)
  \/ \E c \in {1} :
       \/ ClientConnect(c) \/ WsInitLookup(c) \/ WsInitWrite(c)
       \/ WsRead(c) \/ WsSubWait(c) \/ WsSubLookup(c) \/ WsSubWrite(c)
       \/ HandleRegionChange(c) \/ OnMessage(c)

SpecClient == InitWS /\ [][NextClient]_vars

\* callOpenAIAnalysis applied to every reply text of up to MaxLen pieces,
\* in the periodic analysis of taiwan's first snapshot
NextDecode ==
  \/ \E p \in Pollers \cap Taiwan : FirstCycleStep(p)
  \/ \E g \in Taiwan : BcRLock(g)
  \/ \E a \in Analysts \cap Taiwan :
       PerformAnalysis(a) \/ AnalysisReplyFrom(a, Contents)

SpecDecode == InitWS /\ [][NextDecode]_vars

(******************** properties of the fetch path ************************)
\* positions of fetchOpenSkyData after lastOpenSkyCall has been stamped
Stamped == {"f_auth", "t_exchange", "f_request", "f_401"}

C3_NoErrorOn429 ==
  \A g \in Fetchers :
    res[g].status = "429"
      => /\ ~res[g].err
         /\ g \in Reqs => resp[g].code # 500

\* C4: the step that handles a 401 empties the token cache and returns an
\* error; from then on the token that was answered with 401 is never the
\* cached token again, a getOpenSkyToken call never returns it, and a call
\* that finds the cache empty goes to the identity endpoint.
C4_RejectedTokenNeverReused ==
  /\ [](oauthToken \notin rejected)
  /\ [][\A g \in Fetchers :
          /\ (pc[g] = "f_401" /\ pc'[g] # "f_401")
               => /\ oauthToken' = 0
                  /\ res'[g].err /\ res'[g].status = "401"
                  /\ g \in Reqs => resp'[g].code = 500
          /\ (pc[g] = "f_auth" /\ pc'[g] = "f_request")
               => hdr'[g].tok \notin rejected
          /\ (pc[g] = "f_auth" /\ pc'[g] # "f_auth" /\ oauthToken = 0)
               => pc'[g] = "t_exchange"]_vars

\* a token has been answered with 401 and a later call is exchanging anew
C4_Witness ==
  /\ rejected # {}
  /\ oauthToken = 0
  /\ \E g \in Fetchers : pc[g] = "t_exchange"

\* more than TokenBuffer seconds remain before the cached token's expiry
MoreThanBufferLeft == oauthToken # 0 /\ oauthTokenExpiry - now > 60

C6_CachedIffMoreThanBufferLeft ==
  [][\A g \in Fetchers :
       /\ (pc[g] = "f_auth" /\ pc'[g] # "f_auth")
            => /\ (pc'[g] = "f_request") <=> MoreThanBufferLeft
               /\ pc'[g] = "f_request"
                    => /\ hdr'[g] = [auth |-> "bearer", tok |-> oauthToken]
                       /\ UNCHANGED <<oauthToken, oauthTokenExpiry, tokenSeq>>
               /\ pc'[g] # "f_request" => pc'[g] = "t_exchange"
       /\ (pc[g] = "t_exchange" /\ pc'[g] # "t_exchange" /\ tokenSeq' # tokenSeq)
            => /\ oauthToken' = tokenSeq' /\ oauthToken' # oauthToken
               /\ oauthTokenExpiry' = now + expiresIn'
               /\ expiresIn' \in TokenLifetimes
               /\ hdr'[g] = [auth |-> "bearer", tok |-> oauthToken']]_vars

\* two requests in flight carry the same token: the later caller took it
\* from the cache
C6_Witness ==
  \E g, h \in Fetchers :
    /\ g # h
    /\ pc[g] = "f_request" /\ pc[h] = "f_request"
    /\ hdr[g].auth = "bearer" /\ hdr[h] = hdr[g]
    /\ tokenSeq = 1 /\ expiresIn = 62

(******************** properties of the push path *************************)
Broadcasters == Pollers \cup Analysts

\* the connections registered for the region g broadcasts to
Matching(g) == {c \in Conns : clients[c] = g[2]}

\* C2: when the fetch of a poller has failed (429, 401, another non-2xx
\* status, a network error or an undecodable body), fetchAndBroadcast
\* returns with the Snapshot Cache as it was and with nothing sent to any
\* connection; the store and the broadcast are only reached after a
\* successful fetch.
C2_FailedFetchLeavesCacheAndSendsNothing ==
  /\ [](\A p \in Pollers :
          /\ pc[p] = "fab_ret" => (res[p].err <=> res[p].status # "ok")
          /\ pc[p] \in {"fab_wait", "bc_rlock", "bc_visit", "bc_unlock"}
               => ~res[p].err /\ airspaceCache[p[2]].seq # 0)
  /\ [][\A p \in Pollers :
          (pc[p] = "fab_ret" /\ res[p].err /\ pc'[p] # "fab_ret")
            => /\ pc'[p] = "idle"
               /\ airspaceCache' = airspaceCache
               /\ inbox' = inbox]_vars

\* a fetch has failed while its region has a cached snapshot and a subscriber
C2_Witness ==
  \E p \in Pollers : \E c \in Conns :
    /\ pc[p] = "fab_ret" /\ res[p].status = "429"
    /\ airspaceCache[p[2]] # NoSnap
    /\ clients[c] = p[2] /\ peer[c] = "open"

\* C7: a broadcast writes to exactly the connections registered for its
\* region: while the loop runs, those it has written to are the visited
\* entries of that region, and when it ends they are all entries of that
\* region and no other.
C7_BroadcastReachesExactlyTheRegion ==
  \A g \in Broadcasters :
    /\ pc[g] = "bc_visit"
         => attempted[g] = Matching(g) \ (todo[g] \cup {cur[g]})
    /\ pc[g] = "bc_unlock" => attempted[g] = Matching(g)

\* an analysis broadcast has ended with a write made while another
\* connection is registered for a different region
C7_Witness ==
  \E g \in Analysts : \E c \in Conns :
    /\ pc[g] = "bc_unlock"
    /\ attempted[g] # {}
    /\ clients[c] \notin {"", g[2]}

\* C8: when a broadcast ends, every connection of its region whose write
\* did not fail has been delivered the message, whatever writes failed
\* before it, and the connections whose write failed are still registered
\* for the region.
C8_FailedSendIsIsolated ==
  \A g \in Broadcasters :
    pc[g] = "bc_unlock"
      => /\ \A c \in Matching(g) \ failed[g] :
              \E i \in DOMAIN inbox[c] : inbox[c][i] = Msg(g)
         /\ \A c \in failed[g] : clients[c] = g[2]

\* a snapshot broadcast has ended with one write failed and another delivered
C8_Witness ==
  \E g \in Pollers :
    /\ pc[g] = "bc_unlock"
    /\ failed[g] # {}
    /\ attempted[g] \ failed[g] # {}

\* the write of g to the entry it is at does not return
Blocked(g) ==
  /\ pc[g] = "bc_visit"
  /\ clients[cur[g]] = g[2]
  /\ peer[cur[g]] = "stalled"

\* C9: whenever the write of a broadcast to one connection is stalled, every
\* other connection of the region that the loop has not reached yet, and
\* that goes on reading, is eventually written to by that broadcast.
C9_SlowClientDoesNotBlockOthers ==
  \A g \in Broadcasters : \A c \in Conns :
    (Blocked(g) /\ c \in todo[g] /\ clients[c] = g[2] /\ peer[c] = "open")
      ~> (c \in attempted[g] \/ peer[c] # "open")

\* C10: when the handler has dealt with a subscribe naming a configured
\* region, the connection's own registry entry names that region and the
\* handler has written the region's cached snapshot and cached analysis,
\* each if present, to the connection.
C10_SubscribeSendsSnapshotAndAnalysis ==
  [][\A c \in Conns :
       (/\ pc[H(c)] \in {"ws_sub", "ws_sub_write"}
        /\ pc'[H(c)] = "ws_loop"
        /\ wsreg[c] \in Regions
        /\ peer[c] = "open")
         => /\ clients'[c] = wsreg[c]
            /\ airspaceCache[wsreg[c]] # NoSnap
                 => \E i \in DOMAIN inbox'[c] :
                      inbox'[c][i] = SnapMsg(airspaceCache[wsreg[c]], H(c))
            /\ analysisCache[wsreg[c]] # NoAnalysis
                 => \E i \in DOMAIN inbox'[c] :
                      inbox'[c][i] = AnMsg(wsreg[c], analysisCache[wsreg[c]], H(c))]_vars

(******************** properties of a connection **************************)
\* the messages the handler of c itself has written to c, of one kind
OwnSends(box, c, kind) ==
  {i \in DOMAIN box : box[i].from = H(c) /\ box[i].kind = kind}

\* C11: once the handler has registered a new connection under its initial
\* region, it writes to it, before it starts reading, the region's cached
\* snapshot and the region's cached analysis, each exactly once if present
\* and not at all if absent.
C11_ConnectSendsSnapshotAndAnalysisOnce ==
  /\ [](\A c \in Conns :
          pc[H(c)] \in {"ws_init", "ws_init_write"}
            => clients[c] = wsreg[c] /\ wsreg[c] # "")
  /\ [][\A c \in Conns :
          (/\ pc[H(c)] \in {"ws_init", "ws_init_write"}
           /\ pc'[H(c)] = "ws_loop"
           /\ peer[c] = "open")
            => /\ Cardinality(OwnSends(inbox'[c], c, "snapshot"))
                   = (IF airspaceCache[wsreg[c]] # NoSnap THEN 1 ELSE 0)
               /\ Cardinality(OwnSends(inbox'[c], c, "analysis"))
                   = (IF analysisCache[wsreg[c]] # NoAnalysis THEN 1 ELSE 0)
               /\ \A i \in OwnSends(inbox'[c], c, "snapshot") :
                    inbox'[c][i] = SnapMsg(airspaceCache[wsreg[c]], H(c))
               /\ \A i \in OwnSends(inbox'[c], c, "analysis") :
                    inbox'[c][i] = AnMsg(wsreg[c], analysisCache[wsreg[c]], H(c))]_vars

\* C12: a subscribe message naming a region that is not configured is
\* dropped: the handler does not enter its subscribe branch, and the step
\* that consumes the message leaves the connection's registry entry as it
\* was and the connection open and back in its read loop.
C12_UnknownRegionKeepsSubscription ==
  /\ [](\A c \in Conns :
          pc[H(c)] \in {"ws_sub_wait", "ws_sub", "ws_sub_write"}
            => wsreg[c] \in Regions)
  /\ [][\A c \in Conns :
          (/\ inmsg[c].json /\ inmsg[c].action = "subscribe"
           /\ inmsg[c].region \notin Regions
           /\ inmsg'[c] = NoIn)
            => /\ clients'[c] = clients[c]
               /\ pc'[H(c)] = "ws_loop"
               /\ peer'[c] = peer[c]]_vars

\* C13: every entry of the subscriber registry names a configured region.
C13_RegistryHoldsConfiguredRegions ==
  \A c \in Conns : clients[c] # "" => clients[c] \in Regions

\* C14: the step that consumes an inbound message that is not valid JSON,
\* or whose action is not "subscribe", leaves the whole registry and its
\* lock as they were, writes nothing to the connection, and leaves the
\* connection open with its handler back in the read loop.
C14_OtherMessagesChangeNothing ==
  [][\A c \in Conns :
       (/\ inmsg[c] # NoIn /\ inmsg'[c] = NoIn
        /\ (~inmsg[c].json \/ inmsg[c].action # "subscribe"))
         => /\ clients' = clients /\ clientsMutex' = clientsMutex
            /\ inbox' = inbox
            /\ peer' = peer
            /\ pc[H(c)] = "ws_loop" /\ pc'[H(c)] = "ws_loop"]_vars

\* a payload that did not decode (the cut-short text of a subscribe for
\* taiwan) has been read on a connection that is still open and still
\* registered for socal
C14_Witness ==
  \E c \in Conns :
    /\ request[c].err
    /\ pc[H(c)] = "ws_loop"
    /\ clients[c] = "socal"
    /\ peer[c] = "open"

\* C15: a connection whose read loop has ended, and whose handler is at
\* the deferred clientsMutex.Lock(), is eventually out of the registry; and
\* a broadcast loop only ever visits, and writes to, connections that are
\* in the registry, so none that starts after the removal reaches it.
C15_ClosedConnectionIsUnregistered ==
  /\ \A c \in Conns : (pc[H(c)] = "ws_close_wait") ~> (clients[c] = "")
  /\ [](\A g \in Broadcasters :
          pc[g] \in {"bc_visit", "bc_unlock"}
            => \A c \in todo[g] \cup attempted[g] \cup ({cur[g]} \ {0}) :
                 clients[c] # "")

\* C16: the snapshots of one region that a connection has been delivered
\* are in the order they were fetched (a cached one the handler sent may
\* repeat a broadcast one, the broadcast ones never repeat), and a poller in
\* its broadcast is sending the snapshot the cache holds for its region: no
\* later run of fetchAndBroadcast for the region has stored another.
C16_SnapshotsDeliveredInFetchOrder ==
  /\ \A c \in Conns : \A i, j \in DOMAIN inbox[c] :
        (/\ i < j
         /\ inbox[c][i].kind = "snapshot" /\ inbox[c][j].kind = "snapshot"
         /\ inbox[c][i].region = inbox[c][j].region)
          => /\ inbox[c][i].seq <= inbox[c][j].seq
             /\ (IsPoller(inbox[c][i].from) /\ IsPoller(inbox[c][j].from))
                  => inbox[c][i].seq < inbox[c][j].seq
  /\ \A p \in Pollers :
        pc[p] \in {"bc_rlock", "bc_visit", "bc_unlock"}
          => Data(p) = airspaceCache[p[2]]

\* a connection has been delivered two successive broadcasts of its region
C16_Witness ==
  \E c \in Conns : \E i, j \in DOMAIN inbox[c] :
    /\ i < j
    /\ IsPoller(inbox[c][i].from) /\ IsPoller(inbox[c][j].from)
    /\ inbox[c][i].seq = 1 /\ inbox[c][j].seq = 2

\* C17: from the registry update of a subscribe until the handler has
\* sent the new region's cached snapshot (or found none), no poller's
\* broadcast for the new region is delivered to the connection.
C17_CachedStateBeforeBroadcast ==
  [][\A c \in Conns :
       (/\ pc[H(c)] \in {"ws_sub", "ws_sub_write"}
        /\ clients[c] = wsreg[c]
        /\ inbox'[c] # inbox[c])
         => ~ /\ IsPoller(inbox'[c][Len(inbox'[c])].from)
              /\ inbox'[c][Len(inbox'[c])].region = wsreg[c]]_vars

\* positions at which a goroutine is inside a network call: the upstream
\* request, the token exchange, the reasoning-service call, a write to a
\* client connection
InNetworkCall ==
  {"f_request", "t_exchange", "an_call", "a_call", "bc_visit", "ws_init_write",
   "ws_sub_write"}

\* C18: a goroutine that is inside a network call holds neither the
\* Snapshot Cache lock nor the Subscriber Registry lock.
C18_NoDataLockAcrossNetworkCall ==
  \A g \in Procs :
    pc[g] \in InNetworkCall => g \notin cacheMutex.r \cup clientsMutex.r

\* C19: whatever configured region a connection is registered for, the
\* process runs a poller loop for that region, which fetches and
\* broadcasts its snapshots.
C19_EveryConfiguredRegionIsPolled ==
  \A c \in Conns :
    clients[c] \in Regions => <<"poll", clients[c]>> \in DOMAIN pc

(******************** properties of the parser ****************************)
\* a row the parser has to keep: at least 17 fields, and a number both at
\* the longitude and at the latitude index
HasPosition(state) ==
  Len(state) >= 17 /\ state[6].t = "num" /\ state[7].t = "num"

\* C20: after any number of rows, the records appended are, in input
\* order, those of exactly the rows seen so far that have at least 17
\* fields and a longitude and a latitude (a coordinate is present when it
\* is a JSON number): short rows and rows missing a coordinate are left
\* out, and they do not disturb the rows around them.
C20_KeepsExactlyRowsWithPosition ==
  LET seen == SubSeq(states, 1, pos - 1)
      kept == SelectSeq(seen, HasPosition)
  IN /\ Len(aircraft) = Len(kept)
     /\ \A k \in DOMAIN kept :
          /\ aircraft[k].ICAO24 = kept[k][1].v
          /\ aircraft[k].Longitude = [nil |-> FALSE, val |-> kept[k][6].v]
          /\ aircraft[k].Latitude = [nil |-> FALSE, val |-> kept[k][7].v]

\* a batch has been parsed whose first row is short or lacks its longitude
\* and whose second row has been kept
C20_Witness ==
  /\ Len(states) = 2 /\ pos = 3
  /\ Len(states[1]) = 16 \/ states[1][6].t = "null"
  /\ Len(aircraft) = 1 /\ aircraft[1].ICAO24 = 2

(******************** properties of the analysis paths ********************)
\* C21: the reasoning service is called (analyses grows) only by a caller
\* whose region is analyzable (it has a cached snapshot with at least one
\* aircraft and a reasoning-service key is configured); otherwise the periodic path stays idle and
\* POST /api/analyze answers 503 in a step that leaves the Analysis Cache
\* and every connection as they were.
C21_NoAnalysisWithoutDataOrKey ==
  [][LET Analyzable(r) ==
           openaiKey /\ airspaceCache[r].seq # 0 /\ airspaceCache[r].count >= 1
     IN /\ \A a \in Analysts :
             (pc[a] = "an_idle" /\ ~Analyzable(a[2]))
               => pc'[a] = "an_idle"
        /\ \A g \in AReqs :
             (pc[g] = "a_new" /\ pc'[g] # "a_new" /\ ~Analyzable(areg'[g]))
               => /\ pc'[g] = "a_done"
                  /\ aresp'[g].code \in {503, 405}
                  /\ UNCHANGED <<analyses, analysisCache, inbox>>
        /\ analyses' # analyses
             => \E g \in Analysts \cup AReqs :
                  /\ pc'[g] \in {"an_call", "a_call"} /\ pc[g] # pc'[g]
                  /\ Analyzable(IF g \in AReqs THEN areg'[g] ELSE g[2])]_vars

\* POST /api/analyze for taiwan has been answered 503, with a key
\* configured, because the cached snapshot has no aircraft, while a
\* client is subscribed to taiwan
C21_Witness ==
  \E g \in AReqs :
    /\ aresp[g].code = 503 /\ areg[g] = "taiwan"
    /\ openaiKey
    /\ airspaceCache["taiwan"] # NoSnap /\ airspaceCache["taiwan"].count = 0
    /\ clients[1] = "taiwan"

\* C22: when the reply text does not decode, performAnalysis gets the
\* degraded record (UNKNOWN, score 0, its region, the reply text in raw),
\* stores it in the Analysis Cache and goes on to broadcast it; when that
\* broadcast ends, every subscriber of the region whose write did not fail
\* has been delivered it.
C22_DegradedRecordStoredAndBroadcast ==
  /\ [][\A a \in Analysts :
          (/\ pc[a] = "an_call" /\ content'[a] # <<>>
           /\ ~UnmarshalOK(JsonContent(content'[a])))
            => /\ adata'[a] = [region |-> a[2], id |-> analyses, level |-> "UNKNOWN",
                                score |-> 0, raw |-> content'[a]]
               /\ analysisCache'[a[2]] = adata'[a]
               /\ pc'[a] = "bc_rlock"]_vars
  /\ [](\A a \in Analysts :
          (pc[a] = "bc_unlock" /\ adata[a].level = "UNKNOWN")
            => \A c \in Matching(a) \ failed[a] :
                 \E i \in DOMAIN inbox[c] : inbox[c][i] = AnMsg(a[2], adata[a], a))

\* the broadcast of a degraded record has ended with a subscriber written to
C22_Witness ==
  \E a \in Analysts :
    /\ pc[a] = "bc_unlock"
    /\ adata[a].level = "UNKNOWN" /\ adata[a].raw = <<"p">>
    /\ analysisCache[a[2]] = adata[a]
    /\ attempted[a] \ failed[a] # {}

\* position of the first brace of a reply text (0: none)
FirstBrace(c) ==
  IF \E i \in DOMAIN c : IsOpen(c[i])
    THEN CHOOSE i \in DOMAIN c : IsOpen(c[i]) /\ \A j \in 1..(i - 1) : ~IsOpen(c[j])
    ELSE 0

\* opening minus closing braces among the pieces i..j of c
Balance(c, i, j) ==
  Cardinality({k \in i..j : IsOpen(c[k])}) - Cardinality({k \in i..j : IsClose(c[k])})

\* position of the brace that balances the first one (0: none)
BalancingBrace(c) ==
  IF FirstBrace(c) # 0 /\ \E j \in FirstBrace(c)..Len(c) : Balance(c, FirstBrace(c), j) = 0
    THEN CHOOSE j \in FirstBrace(c)..Len(c) :
           /\ Balance(c, FirstBrace(c), j) = 0
           /\ \A k \in FirstBrace(c)..(j - 1) : Balance(c, FirstBrace(c), k) # 0
    ELSE 0

\* the reply text is one JSON object with prose or code fences around it
WrappedObject(c) ==
  \E i, j \in DOMAIN c :
    /\ i <= j /\ IsObject(SubSeq(c, i, j))
    /\ \A k \in DOMAIN c : (k < i \/ k > j) => c[k] = "p"

\* C23: for every reply text the candidate handed to the decoder runs from
\* the first brace to the brace that balances it; an object wrapped in
\* prose or code fences is decoded; and a text with no brace, or with no
\* balancing brace, yields the degraded record: UNKNOWN, raw text kept.
C23_BalancedExtraction ==
  \A a \in Analysts :
    (pc[a] = "bc_rlock" /\ content[a] # <<>>)
      => /\ BalancingBrace(content[a]) # 0
              => JsonContent(content[a])
                   = SubSeq(content[a], FirstBrace(content[a]), BalancingBrace(content[a]))
         /\ WrappedObject(content[a])
              => adata[a].level = "HIGH" /\ adata[a].raw = <<>>
         /\ BalancingBrace(content[a]) = 0
              => /\ adata[a].level = "UNKNOWN" /\ adata[a].score = 0
                 /\ adata[a].raw = content[a]

\* C24: the step in which a caller stores an analysis in the Analysis
\* Cache stores it under the key of the region it was requested for, with
\* that region stamped in it, and takes the caller on to the broadcast to
\* that region's subscribers.
C24_AnalysisStoredThenBroadcast ==
  [][\A g \in Analysts \cup AReqs :
       (/\ pc[g] \in {"an_call", "a_call"} /\ pc'[g] # pc[g]
        /\ analysisCache' # analysisCache)
         => LET r == IF g \in AReqs THEN areg[g] ELSE g[2] IN
              /\ analysisCache'[r].region = r
              /\ \A k \in Keys \ {r} : analysisCache'[k] = analysisCache[k]
              /\ pc'[g] = "bc_rlock"]_vars

\* C25: the periodic path calls the reasoning service for a region only
\* while some connection is registered for that region.
C25_PeriodicAnalysisOnlyWithSubscribers ==
  [][\A a \in Analysts :
       (pc[a] = "an_idle" /\ pc'[a] = "an_call")
         => \E c \in Conns : clients[c] = a[2]]_vars

(******************** properties of the Snapshot Cache ********************)
\* C26: a GET /api/aircraft whose region is not configured is answered 400
\* and starts no upstream call; one for a configured region is answered
\* with the cached snapshot if the region has one, and otherwise goes into
\* fetchOpenSkyData at the rate limiter's lock; and no REST handler is ever
\* inside fetchOpenSkyData for a region that is not configured.
C26_UnknownRegion400ElseCachedOrFetched ==
  /\ [][\A g \in Reqs :
          (pc[g] = "r_new" /\ pc'[g] # "r_new")
            => IF freg'[g] \notin Regions
                 THEN /\ resp'[g] = [code |-> 400, snap |-> NoSnap]
                      /\ pc'[g] = "r_done" /\ calls' = calls
               ELSE IF airspaceCache[freg'[g]] # NoSnap
                 THEN /\ resp'[g] = [code |-> 200, snap |-> airspaceCache[freg'[g]]]
                      /\ pc'[g] = "r_done" /\ calls' = calls
               ELSE /\ pc'[g] = "f_lock" /\ calls' = calls + 1
                    /\ resp'[g] = NoResp]_vars
  /\ [](\A g \in Reqs :
          pc[g] \notin {"r_new", "r_done"} => freg[g] \in Regions)

\* a request for a region that is not configured has been answered 400
\* after the pollers have started their fetches
C26_Witness ==
  \E g \in Reqs :
    /\ resp[g].code = 400 /\ freg[g] = "mars"
    /\ calls > 0

\* C27: at most one goroutine is inside the HTTP request of
\* fetchOpenSkyData at any time.
C27_OneUpstreamRequestInFlight ==
  Cardinality({g \in Fetchers : pc[g] = "f_request"}) <= 1

\* C28: a step that changes the Snapshot Cache is the store of a poller
\* whose fetch succeeded, and it changes the entry of that poller's region
\* and no other; no step of the REST handler, of an analysis path or of a
\* WebSocket handler changes it.
C28_OnlyPollersWriteTheCache ==
  [][airspaceCache' # airspaceCache
       => \E p \in Pollers :
            /\ pc[p] \in {"fab_ret", "fab_wait"} /\ pc'[p] = "bc_rlock"
            /\ ~res[p].err
            /\ airspaceCache'[p[2]].region = p[2]
            /\ \A k \in DOMAIN airspaceCache \ {p[2]} :
                 airspaceCache'[k] = airspaceCache[k]]_vars

\* GET /api/aircraft has fetched europe synchronously and answered 200,
\* europe has no cache entry, and the poller has stored taiwan's snapshot
C28_Witness ==
  \E g \in Reqs :
    /\ resp[g].code = 200 /\ freg[g] = "europe"
    /\ airspaceCache["europe"] = NoSnap
    /\ airspaceCache["taiwan"] # NoSnap

\* C29: while a poller is in the fan-out of a snapshot, the cache entry of
\* its region is that snapshot; and no connection has been sent a snapshot
\* newer than the cache entry of the snapshot's region.
C29_CacheReplacedBeforeFanOut ==
  /\ \A p \in Pollers :
       pc[p] \in {"bc_rlock", "bc_visit", "bc_unlock"}
         => airspaceCache[p[2]] = Data(p)
  /\ \A c \in Conns : \A i \in DOMAIN inbox[c] :
       inbox[c][i].kind = "snapshot"
         => inbox[c][i].seq <= airspaceCache[inbox[c][i].region].seq

\* the second snapshot of a region is being fanned out and has been
\* written to a subscriber
C29_Witness ==
  \E p \in Pollers :
    /\ pc[p] = "bc_visit" /\ attempted[p] \ failed[p] # {}
    /\ Data(p).seq = 2
    /\ airspaceCache[p[2]] = Data(p)

\* the count is the number of records, the tag is r, and every record
\* has a longitude and a latitude
WellFormed(d, r) ==
  /\ d.count = Len(d.aircraft)
  /\ d.region = r
  /\ \A i \in DOMAIN d.aircraft :
       ~d.aircraft[i].Longitude.nil /\ ~d.aircraft[i].Latitude.nil

\* C30: every entry of the Snapshot Cache is well formed for its key, every
\* 200 reply of GET /api/aircraft for the region asked for, and every
\* snapshot sent to a connection for the region it is tagged with, which
\* is the region of the poller or the cache entry it came from; and a
\* fetch returns no record for the reply without rows and one record, the
\* row with both coordinates, for the reply of two rows of which one has
\* no longitude.
C30_SnapshotsWellFormed ==
  /\ \A k \in DOMAIN airspaceCache :
       airspaceCache[k] # NoSnap => WellFormed(airspaceCache[k], k)
  /\ \A g \in Reqs :
       resp[g].code = 200 => WellFormed(resp[g].snap, freg[g])
  /\ \A c \in Conns : \A i \in DOMAIN inbox[c] :
       inbox[c][i].kind = "snapshot"
         => /\ WellFormed(inbox[c][i], inbox[c][i].region)
            /\ inbox[c][i].from \in Pollers => inbox[c][i].region = inbox[c][i].from[2]
            /\ inbox[c][i].region \in PolledRegions
  /\ \A g \in Fetchers :
       (~res[g].err /\ res[g].seq # 0)
         => res[g].aircraft \in {<<>>, <<MkAircraft(TwoRowsOneWithoutLongitude[1])>>}

\* the snapshot of the two-row reply is cached with count 1, a connection
\* has been sent it, and GET /api/aircraft has answered with a snapshot of
\* count 1 that it fetched itself
C30_Witness ==
  /\ airspaceCache["taiwan"].count = 1
  /\ \E c \in Conns : \E i \in DOMAIN inbox[c] :
       inbox[c][i].kind = "snapshot" /\ inbox[c][i].count = 1
  /\ \E g \in Reqs :
       resp[g].code = 200 /\ freg[g] = "europe" /\ resp[g].snap.count = 1

(******************** properties of the browser client ********************)
\* C34: the step in which the client handles a message applies it (to the
\* aircraft list for a snapshot, to the analysis for an analysis message)
\* when its region tag is the region selected and changes nothing of what
\* is shown otherwise; and the aircraft list and the analysis shown are
\* always empty or tagged with the region selected.
C34_ClientAppliesOnlySelectedRegion ==
  /\ [][\A c \in Conns :
          nread'[c] = nread[c] + 1
            => LET m == inbox[c][nread'[c]] IN
                 IF m.region = regionRef[c]
                   THEN display'[c] =
                          IF m.kind = "snapshot"
                            THEN [display[c] EXCEPT !.aircraft = m.region]
                            ELSE [display[c] EXCEPT !.analysis = m.region]
                   ELSE display'[c] = display[c]]_vars
  /\ [](\A c \in Conns :
          /\ display[c].aircraft \in {"", regionRef[c]}
          /\ display[c].analysis \in {"", regionRef[c]})

\* the client selected socal before its socket opened, the server
\* registered it for taiwan and sent it taiwan's snapshot, and the client
\* has handled that message and shows no aircraft
C34_Witness ==
  \E c \in Conns :
    /\ regionRef[c] = "socal" /\ msgs[c] = 0
    /\ nread[c] >= 1
    /\ inbox[c][1].kind = "snapshot" /\ inbox[c][1].region = "taiwan"
    /\ display[c].aircraft = ""

(******************* properties of the caches and the token ***************)
\* C31: in every state the Snapshot Cache holds a snapshot for each of the
\* configured regions (the map holds at most one value per key by
\* construction, so "exactly one" is "one is there").
C31_EveryRegionHasASnapshot ==
  \A r \in Regions : airspaceCache[r] # NoSnap /\ airspaceCache[r].region = r

\* C32: a token exchange that fails (the step out of the exchange that
\* issues no new token) leaves the cached token and its expiry as they
\* were, gives the caller no result yet and sends the upstream request
\* without a bearer token (with no Authorization header at all, also when
\* a username and password are configured); the mutex is released.
C32_FailedExchangeFallsBack ==
  [][\A g \in Fetchers :
       (pc[g] = "t_exchange" /\ pc'[g] # "t_exchange" /\ tokenSeq' = tokenSeq)
         => /\ oauthToken' = oauthToken
            /\ oauthTokenExpiry' = oauthTokenExpiry
            /\ pc'[g] = "f_request"
            /\ hdr'[g] = NoHdr
            /\ res'[g] = NoRes
            /\ oauthTokenMutex' = <<>>]_vars

\* a fetcher whose exchange failed while a token issued earlier was cached
\* has its request out without a header, and the token is still cached
C32_Witness ==
  \E g \in Fetchers :
    /\ pc[g] = "f_request" /\ hdr[g] = NoHdr
    /\ OAuth /\ env.username /\ env.password
    /\ oauthToken # 0 /\ oauthToken = tokenSeq
    /\ \A h \in Fetchers \ {g} : pc[h] \notin {"t_exchange", "f_request", "f_401"}

\* C38: the step in which a fetcher handles a 401 for a request that carried
\* a bearer token changes the cached token only when the cache still holds
\* the token that was rejected; a newer token is left in place.
C38_Stale401KeepsNewerToken ==
  [][\A g \in Fetchers :
       (/\ pc[g] = "f_401" /\ pc'[g] # "f_401"
        /\ hdr[g].auth = "bearer"
        /\ oauthToken # hdr[g].tok)
         => oauthToken' = oauthToken]_vars

(******************** properties of concurrent writers ********************)
\* the goroutines that are inside a WriteJSON call on connection c: a
\* broadcast whose loop is at c and finds it registered for its region, and
\* the connection's handler in its send of the cached snapshot
Writers(c) ==
  {g \in Broadcasters : pc[g] = "bc_visit" /\ cur[g] = c /\ clients[c] = g[2]}
    \cup {h \in {H(c)} : pc[h] \in {"ws_init_write", "ws_sub_write"}}

\* C35: in every state at most one goroutine is inside a write to a given
\* connection.
C35_OneWriterPerConnection ==
  \A c \in Conns : Cardinality(Writers(c)) <= 1

\* C37: of two snapshots of one region that a connection has been
\* delivered, one of them by its handler's immediate send, the one delivered
\* later was not fetched before the other: an immediate send is never older
\* than what the connection already has, and never newer than a broadcast
\* that follows it.
C37_ImmediateSendsInFetchOrder ==
  \A c \in Conns : \A i, j \in DOMAIN inbox[c] :
    (/\ i < j
     /\ inbox[c][i].kind = "snapshot" /\ inbox[c][j].kind = "snapshot"
     /\ inbox[c][i].region = inbox[c][j].region
     /\ H(c) \in {inbox[c][i].from, inbox[c][j].from})
      => inbox[c][i].seq <= inbox[c][j].seq

\* a connection that was sent the first snapshot of taiwan by a broadcast has
\* then, on a subscribe, been sent the second by its handler
C37_Witness ==
  \E c \in Conns : \E i, j \in DOMAIN inbox[c] :
    /\ i < j
    /\ IsPoller(inbox[c][i].from) /\ inbox[c][i].seq = 1
    /\ inbox[c][j].from = H(c) /\ inbox[c][j].kind = "snapshot"
    /\ inbox[c][j].seq = 2
    /\ inbox[c][i].region = inbox[c][j].region

\* C36: a new client whose handler has to wait for the Subscriber Registry
\* (a broadcast is under way, possibly blocked in a write to a client that
\* stopped reading) is eventually registered.
C36_NewClientRegistersDespiteStall ==
  \A c \in Conns : (pc[H(c)] = "ws_reg_wait") ~> (clients[c] # "")

(******************** properties of the background loops ******************)
\* C33: a poller whose fetch has failed goes back to waiting for its ticker
\* and, while the model's budget of fetches lasts, gets as far as sending
\* the upstream request of its next attempt; an analysis loop whose call of
\* the reasoning service has been made is back at its ticker later, and
\* when the call failed it is back at once with the Analysis Cache as it
\* was; and a loop waiting for its ticker starts nothing but its next
\* fetch or analysis.
C33_FailureIsRetriedNextTick ==
  /\ [][\A p \in Pollers :
          /\ (pc[p] = "fab_ret" /\ res[p].err /\ pc'[p] # pc[p]) => pc'[p] = "idle"
          /\ (pc[p] = "idle" /\ pc'[p] # pc[p]) => pc'[p] = "f_lock"]_vars
  /\ [][\A a \in Analysts :
          (pc[a] = "an_call" /\ pc'[a] = "an_idle")
            => analysisCache' = analysisCache]_vars
  /\ \A p \in Pollers \cap Taiwan :
       (pc[p] = "fab_ret" /\ res[p].err /\ calls < MaxCalls) ~> (pc[p] = "f_request")
  /\ \A a \in Analysts \cap Taiwan : (pc[a] = "an_call") ~> (pc[a] = "an_idle")

\* the first fetch of the poller failed, the second succeeded and its
\* snapshot is in the cache
C33_Witness ==
  \E p \in Pollers :
    /\ calls = 2 /\ fetched = 1
    /\ airspaceCache[p[2]].seq = 1
    /\ pc[p] \in {"bc_rlock", "bc_visit", "bc_unlock"}

(************************* properties of the locks ************************)
\* the locks a goroutine can be seen holding (a write lock and the Analysis
\* Cache lock are taken and released within one step)
Locks == {"openSkyMutex", "oauthTokenMutex", "cacheMutex", "clientsMutex"}

Holds(g, m) ==
  CASE m = "openSkyMutex"    -> openSkyMutex = g
    [] m = "oauthTokenMutex" -> oauthTokenMutex = g
    [] m = "cacheMutex"      -> g \in cacheMutex.r
    [] m = "clientsMutex"    -> g \in clientsMutex.r

\* the goroutine is at a Lock or RLock call that cannot return yet
WaitsFor(g, m) ==
  CASE m = "openSkyMutex"    -> pc[g] = "f_lock" /\ openSkyMutex # <<>>
    [] m = "oauthTokenMutex" -> pc[g] \in {"f_auth", "f_401"} /\ oauthTokenMutex # <<>>
    [] m = "cacheMutex"      ->
         \/ pc[g] = "fab_wait"
         \/ pc[g] \in {"ws_init", "ws_sub", "an_idle", "r_new", "a_new"}
              /\ ~CanRLock(cacheMutex)
    [] m = "clientsMutex"    ->
         \/ pc[g] \in {"ws_reg_wait", "ws_sub_wait", "ws_close_wait"}
         \/ pc[g] = "bc_rlock" /\ ~CanRLock(clientsMutex)

====
